---- MODULE Spec2Model ----
(***************************************************************************)
(* Model of the WHIRL streaming pipeline:                                  *)
(*   - RAGBot.generate_response_stream and RAGBot.add_to_history           *)
(*     (backend/rag/rag.py),                                               *)
(*   - the services that serve it (backend/llm_service/rag_server.py,      *)
(*     backend/rag/gpu_inference.py) and backend/llm_service/server.py,    *)
(*   - the Django SSE proxy rag_service_sse_proxy_generator                *)
(*     (backend/api/views.py).                                             *)
(* One Python process is modelled at a time; `service` says which one.     *)
(***************************************************************************)
EXTENDS Integers, Sequences, FiniteSets, TLC

\* ------------------------------------------------------------------ bounds
\* pieces a generation worker puts on its streamer in one session
MaxTokens == 2
\* chunks a scripted upstream sends to the proxy
MaxScript == 2
\* largest configured settings.RAG_MAX_HISTORY_LENGTH explored
MaxHistoryLength == 1
\* requests a service handles one after the other
MaxRequests == 2

\* ------------------------------------------------------- program constants
\* views.py: `if current_time - last_activity_time > 15`
KeepAliveSeconds == 15
\* views.py: `if response.status_code != 200`
StatusOK == 200

\* ------------------------------------------------------------ input sets
\* request slots of a service; a slot serves one request at a time
Sessions == {"s1", "s2"}
\* the slot that serves the requests of a run in which they come one at a time
Serial == {"s1"}
Services == {"django_scripted", "django_live", "rag_server", "gpu_inference", "llm_service"}
\* the k-th piece the model decodes is either empty text or the k-th token
TokenText == <<"a", "b", "c", "d">>
StopSignal == "STOP"
Questions == {"", "q"}
\* seconds that pass while the proxy waits for the next upstream chunk
Gaps == {10, 15, 16}
UpstreamStatuses == {200, 500}
NoLoopOwner == "free"
\* the user conversations that send requests to the service
ChatSessions == {"u1", "u2"}
NoChatSession == "none"

\* a retrieved document: only metadata['source'] matters to the stream
Doc(src) == [source |-> src]
NoSource == "-"
DocLists == { <<>>, <<Doc(NoSource)>>, <<Doc("y.pdf"), Doc("x.pdf")>>, <<Doc("x.pdf"), Doc("x.txt")>> }

\* ------------------------------------------------------------ SSE chunks
\* A chunk on the wire: the event name of its first line (ev), the state of
\* its data line (data: "ok", "missing", "invalid"), and the payload.
Chunk(ev, data, text, srcs, id) == [ev |-> ev, data |-> data, text |-> text, srcs |-> srcs, id |-> id]
TokenEvent(t) == Chunk("token", "ok", t, <<>>, "")
SourcesEvent(l) == Chunk("sources", "ok", "", l, "")
ErrorEvent(msg) == Chunk("error", "ok", msg, <<>>, "")
EndEvent == Chunk("end", "ok", "", <<>>, "")
\* server.py yields token lines without an `event:` line
DataOnlyEvent(t) == Chunk("message", "ok", t, <<>>, "")
\* plain text written by a wrapper generator, not an SSE event
TextChunk(msg) == Chunk("text", "missing", msg, <<>>, "")
InitEvent(id) == Chunk("init", "ok", "", <<>>, id)
\* ProxyErrorEvent without the interaction_id key in its payload
ProxyErrorEvent_NoId(kind, id) == Chunk("error", "ok", kind, <<>>, "")
\* views.py 187, 273, 280, 287: an error event written by the proxy itself
ProxyErrorEvent(kind, id) == Chunk("error", "ok", kind, <<>>, id)
PingLine == Chunk("ping", "missing", "", <<>>, "")

\* ------------------------------------------------------------- sequences
RECURSIVE SeqCount(_, _)
SeqCount(s, ev) ==
    IF s = <<>> THEN 0
    ELSE (IF Head(s).ev = ev THEN 1 ELSE 0) + SeqCount(Tail(s), ev)

RECURSIVE TextsOf(_, _)
TextsOf(s, ev) ==
    IF s = <<>> THEN <<>>
    ELSE (IF Head(s).ev = ev THEN <<Head(s).text>> ELSE <<>>) \o TextsOf(Tail(s), ev)

RECURSIVE NonEmptyPieces(_)
NonEmptyPieces(s) ==
    IF s = <<>> THEN <<>>
    ELSE (IF Head(s) # "" /\ Head(s) # StopSignal THEN <<Head(s)>> ELSE <<>>) \o NonEmptyPieces(Tail(s))

IsPrefix(p, s) == Len(p) <= Len(s) /\ SubSeq(s, 1, Len(p)) = p

\* positions of the events named ev in s
Positions(s, ev) == {i \in 1..Len(s) : s[i].ev = ev}

\* -------------------------------------------------- sources of documents
\* os.path.splitext(filename)[0]
SplitExt(name) ==
    CASE name = "x.pdf" -> "x"
      [] name = "x.txt" -> "x"
      [] name = "y.pdf" -> "y"
      [] OTHER -> name

SourceRank(name) == CASE name = "x" -> 1 [] name = "y" -> 2 [] OTHER -> 3

\* the set built by the loop `for doc in documents: ... sources.add(...)`
SourceSet(documents) ==
    {SplitExt(documents[i].source) : i \in {j \in 1..Len(documents) : documents[j].source # NoSource}}

\* sorted(list(sources))
RECURSIVE SortedSources(_)
SortedSources(S) ==
    IF S = {} THEN <<>>
    ELSE LET m == CHOOSE x \in S : \A y \in S : SourceRank(x) <= SourceRank(y)
         IN <<m>> \o SortedSources(S \ {m})

\* "\n\n---\n**Sources:**\n" + "\n".join(f"- {s}" for s in list)
SourcesHeader == "\n\n---\n**Sources:**\n"
SourcesMarkdown(l) == <<SourcesHeader>> \o [i \in 1..Len(l) |-> "- " \o l[i]]

\* ----------------------------------------------------------------- state
VARIABLES
    service,                \* which process is modelled
    rag_bot_instance,       \* rag_server.py / gpu_inference.py global: TRUE when a RAGBot exists
    llm_ready,              \* llm_model and llm_tokenizer (server.py: llm_pipeline) are loaded
    conversation_history,   \* RAGBot.conversation_history
    max_history_length,     \* RAGBot.max_history_length
    appended_turns,         \* the turns passed to add_to_history since the history was last emptied
    turn_session,           \* for each of appended_turns, the chat session whose request appended it
    g_caller,               \* per session: the route or wrapper that handles the request
    g_session,              \* per session: the chat session (user conversation) the request belongs to
    g_fn,                   \* per session: the generator that serves it
    g_pc,                   \* per session: position in that generator
    g_question,             \* per session: question argument
    g_docs,                 \* per session: documents argument
    g_out,                  \* per session: the chunks written to the response so far
    g_full,                 \* per session: full_response_for_history
    g_prompt,               \* per session: the history turns read into the prompt
    g_prompt_from,          \* per session: the chat sessions that own those turns
    retrieve_calls,         \* per session: retrieve_documents invocations and their results
    thread,                 \* per session: generation worker thread
    streamer,               \* per session: TextIteratorStreamer queue
    produced,               \* per session: every piece the worker has put on the queue
    request_no,             \* responses the service has completed and released
    loop_owner,             \* the task currently holding the service's event loop thread
    p_pc,                   \* proxy: position in rag_service_sse_proxy_generator
    client,                 \* proxy: everything yielded to the client, in order
    full_response_text,     \* proxy local
    error_occurred,         \* proxy local
    interaction,            \* proxy: the in-memory Interaction instance
    db,                     \* proxy: the stored Interaction row
    up_status,              \* proxy: status code of the upstream response
    up_count,               \* proxy: chunks received from the upstream
    received,               \* proxy: those chunks, in arrival order
    p_exc,                  \* proxy: exception being handled
    elapsed,                \* proxy: current_time - last_activity_time at the latest chunk
    save_calls,             \* proxy: calls of interaction.save() made by the generator
    own_ends,               \* proxy: `end` events yielded by the generator's own code
    request,                \* view: the GET request ProcessChatMessageView.get received
    chat_sessions_created,  \* view: ChatSession rows the request created
    chat_session,           \* view: the ChatSession row the Interaction is created with
    vectorstore,            \* RAGBot.vectorstore is loaded
    bm25_index,             \* RAGBot.bm25_index is loaded
    all_documents,          \* RAGBot.all_documents
    over_retrieve_k,        \* RAGBot.over_retrieve_k
    final_k,                \* RAGBot.k
    call,                   \* the retrieval call made and what its collaborators answered
    rrf_result,             \* rrf_scores at the end of that call
    returned                \* the list the call returned, as corpus indices

indexVars == <<vectorstore, bm25_index, all_documents, over_retrieve_k, final_k, call, rrf_result, returned>>
botVars == <<service, rag_bot_instance, llm_ready, max_history_length, indexVars>>
sessVars == <<g_caller, g_session, g_fn, g_pc, g_question, g_docs, g_out, g_full, g_prompt, g_prompt_from,
             retrieve_calls>>
threadVars == <<thread, streamer, produced>>
viewVars == <<request, chat_sessions_created, chat_session>>
proxyVars == <<p_pc, client, full_response_text, error_occurred, interaction, db, up_status, up_count, p_exc,
              elapsed, save_calls, own_ends, received, viewVars>>
histVars == <<conversation_history, appended_turns, turn_session>>
vars == <<botVars, histVars, sessVars, threadVars, request_no, loop_owner, proxyVars>>

InteractionId == "i1"
\* no Interaction instance, no Interaction row, no request
NoInteraction == [id |-> "", error_message |-> "", final_response_text |-> <<>>]
NoRow == [error_message |-> "", final_response_text |-> <<>>, writes |-> 0]
NoSessionRow == [id |-> "", user |-> ""]
NoRequest ==
    [query_text |-> "", auth_header |-> "", token |-> "", user_exists |-> FALSE, session_id |-> ""]

ServiceInit ==
    /\ service \in Services
    /\ rag_bot_instance \in (IF service \in {"django_scripted", "llm_service"} THEN {FALSE} ELSE BOOLEAN)
    /\ llm_ready \in (IF service = "django_scripted" THEN {FALSE} ELSE BOOLEAN)
    /\ conversation_history = <<>>
    /\ appended_turns = <<>>
    /\ turn_session = <<>>
    /\ max_history_length \in 0..MaxHistoryLength
    /\ g_caller = [s \in Sessions |-> "none"]
    /\ g_session = [s \in Sessions |-> NoChatSession]
    /\ g_fn = [s \in Sessions |-> "none"]
    /\ g_pc = [s \in Sessions |-> "idle"]
    /\ g_question = [s \in Sessions |-> ""]
    /\ g_docs = [s \in Sessions |-> <<>>]
    /\ g_out = [s \in Sessions |-> <<>>]
    /\ g_full = [s \in Sessions |-> <<>>]
    /\ g_prompt = [s \in Sessions |-> <<>>]
    /\ g_prompt_from = [s \in Sessions |-> <<>>]
    /\ retrieve_calls = [s \in Sessions |-> <<>>]
    /\ thread = [s \in Sessions |-> "none"]
    /\ streamer = [s \in Sessions |-> <<>>]
    /\ produced = [s \in Sessions |-> <<>>]
    /\ request_no = 0
    /\ loop_owner = NoLoopOwner
    /\ p_pc = IF service \in {"django_scripted", "django_live"} THEN "request" ELSE "off"
    /\ client = <<>>
    /\ full_response_text = <<>>
    /\ error_occurred = FALSE
    /\ interaction = NoInteraction
    /\ db = NoRow
    /\ up_status = 0
    /\ up_count = 0
    /\ received = <<>>
    /\ p_exc = "none"
    /\ elapsed = 0
    /\ save_calls = 0
    /\ own_ends = 0
    /\ request = NoRequest
    /\ chat_sessions_created = 0
    /\ chat_session = NoSessionRow

\* ------------------------------------------------ conversation history
\* Python slice s[-n:]
LastSlice(s, n) ==
    IF n = 0 \/ n >= Len(s) THEN s ELSE SubSeq(s, Len(s) - n + 1, Len(s))

\* RAGBot.add_to_history: the value of conversation_history after the call
add_to_history(history, user_input, ai_response) ==
    LET appended == Append(history, [human |-> user_input, ai |-> ai_response])
    IN IF Len(appended) > max_history_length
       THEN LastSlice(appended, max_history_length)
       ELSE appended

\* the chat sessions that own the turns of conversation_history: the history
\* is always the tail of appended_turns
HistorySessions ==
    SubSeq(turn_session, Len(turn_session) - Len(conversation_history) + 1, Len(turn_session))

\* the chat sessions the next request can come from; the names are
\* interchangeable, so the service's first request is taken to be u1's
Senders == IF request_no = 0 THEN {"u1"} ELSE ChatSessions

\* ------------------------------------------------------- request routes
LoopFree == loop_owner = NoLoopOwner
CanRun(s) == loop_owner \in {NoLoopOwner, s}

\* rag_server.py POST /rag_generate_stream, for session s and query q
EndpointCall(s, q) ==
    /\ g_pc[s] = "idle"
    /\ g_caller' = [g_caller EXCEPT ![s] = "rag_generate_stream"]
    /\ \E u \in Senders : g_session' = [g_session EXCEPT ![s] = u]
    /\ g_question' = [g_question EXCEPT ![s] = q]
    /\ IF ~rag_bot_instance
       THEN /\ g_fn' = [g_fn EXCEPT ![s] = "error_gen"]
            /\ g_out' = [g_out EXCEPT ![s] = <<ErrorEvent("RAG Service not initialized properly."), EndEvent>>]
            /\ g_pc' = [g_pc EXCEPT ![s] = "done"]
       ELSE /\ g_fn' = [g_fn EXCEPT ![s] = "generate_response_stream"]
            /\ g_out' = g_out
            /\ g_pc' = [g_pc EXCEPT ![s] = "check"]
    /\ g_docs' = [g_docs EXCEPT ![s] = <<>>]
    /\ UNCHANGED <<g_full, g_prompt, g_prompt_from, retrieve_calls>>

GenerateRagResponseStream(s) ==
    /\ service = "rag_server"
    /\ LoopFree
    /\ \E q \in Questions : EndpointCall(s, q)
    /\ UNCHANGED <<botVars, histVars, threadVars, loop_owner, request_no, proxyVars>>

\* rag_server.py rag_bot_stream_generator (defined, not routed)
RagBotStreamGenerator(s) ==
    /\ service = "rag_server"
    /\ LoopFree
    /\ g_pc[s] = "idle"
    /\ g_caller' = [g_caller EXCEPT ![s] = "rag_bot_stream_generator"]
    /\ \E u \in Senders : g_session' = [g_session EXCEPT ![s] = u]
    /\ \E q \in Questions, docs \in DocLists :
        /\ g_question' = [g_question EXCEPT ![s] = q]
        /\ IF ~rag_bot_instance
           THEN /\ g_fn' = [g_fn EXCEPT ![s] = "none"]
                /\ g_out' = [g_out EXCEPT ![s] = <<TextChunk("[Error: RAG Service not initialized properly.]")>>]
                /\ g_pc' = [g_pc EXCEPT ![s] = "done"]
                /\ UNCHANGED <<g_docs, retrieve_calls>>
           ELSE /\ g_fn' = [g_fn EXCEPT ![s] = "generate_response_stream"]
                /\ retrieve_calls' = [retrieve_calls EXCEPT ![s] = Append(@, docs)]
                /\ g_docs' = [g_docs EXCEPT ![s] = docs]
                /\ g_out' = g_out
                /\ g_pc' = [g_pc EXCEPT ![s] = "check"]
    /\ UNCHANGED <<g_full, g_prompt, g_prompt_from>>
    /\ UNCHANGED <<botVars, histVars, threadVars, loop_owner, request_no, proxyVars>>

\* gpu_inference.py POST /infer_stream -> stream_generator(rag_bot, query)
InferStream(s) ==
    /\ service = "gpu_inference"
    /\ LoopFree
    /\ g_pc[s] = "idle"
    /\ g_caller' = [g_caller EXCEPT ![s] = "infer_stream"]
    /\ \E u \in Senders : g_session' = [g_session EXCEPT ![s] = u]
    /\ \E q \in Questions, docs \in DocLists, reset_chat \in BOOLEAN :
        /\ g_question' = [g_question EXCEPT ![s] = q]
        /\ IF ~rag_bot_instance
           THEN /\ g_fn' = [g_fn EXCEPT ![s] = "none"]
                /\ g_out' = [g_out EXCEPT ![s] = <<TextChunk("Error: RAG service not initialized.")>>]
                /\ g_pc' = [g_pc EXCEPT ![s] = "done"]
                /\ UNCHANGED <<g_docs, retrieve_calls, histVars>>
           ELSE /\ conversation_history' = IF reset_chat THEN <<>> ELSE conversation_history
                /\ appended_turns' = IF reset_chat THEN <<>> ELSE appended_turns
                /\ turn_session' = IF reset_chat THEN <<>> ELSE turn_session
                /\ retrieve_calls' = [retrieve_calls EXCEPT ![s] = Append(@, docs)]
                /\ IF docs = <<>>
                   THEN /\ g_fn' = [g_fn EXCEPT ![s] = "none"]
                        /\ g_out' = [g_out EXCEPT ![s] = <<TextChunk("Could not find relevant information")>>]
                        /\ g_pc' = [g_pc EXCEPT ![s] = "done"]
                        /\ UNCHANGED g_docs
                   ELSE /\ g_fn' = [g_fn EXCEPT ![s] = "generate_response_stream"]
                        /\ g_docs' = [g_docs EXCEPT ![s] = docs]
                        /\ g_out' = g_out
                        /\ g_pc' = [g_pc EXCEPT ![s] = "check"]
    /\ UNCHANGED <<g_full, g_prompt, g_prompt_from>>
    /\ UNCHANGED <<botVars, threadVars, loop_owner, request_no, proxyVars>>

\* the `except Exception` of the two wrapper generators: the exception that
\* generate_response_stream raised becomes one plain-text chunk
WrapperCatch(s) ==
    /\ g_pc[s] = "raised"
    /\ g_caller[s] \in {"infer_stream", "rag_bot_stream_generator"}
    /\ CanRun(s)
    /\ g_out' = [g_out EXCEPT ![s] = Append(@, TextChunk("[Error during streaming]"))]
    /\ g_pc' = [g_pc EXCEPT ![s] = "done"]
    /\ loop_owner' = NoLoopOwner
    /\ UNCHANGED <<g_caller, g_session, g_fn, g_question, g_docs, g_full, g_prompt, g_prompt_from, retrieve_calls>>
    /\ UNCHANGED <<botVars, histVars, threadVars, request_no, proxyVars>>

\* ------------------------------------ RAGBot.generate_response_stream
IsRag(s) == g_fn[s] = "generate_response_stream"

\* GStart with the sources event yielded before generation instead of after
GStart_SourcesFirst(s) ==
    /\ IsRag(s)
    /\ g_pc[s] = "check"
    /\ LoopFree
    /\ llm_ready
    /\ g_prompt' = [g_prompt EXCEPT ![s] = conversation_history]
    /\ g_prompt_from' = [g_prompt_from EXCEPT ![s] = HistorySessions]
    /\ g_out' = [g_out EXCEPT ![s] =
                    IF SourceSet(g_docs[s]) # {}
                    THEN Append(@, SourcesEvent(SortedSources(SourceSet(g_docs[s]))))
                    ELSE @]
    /\ thread' = [thread EXCEPT ![s] = "running"]
    /\ g_pc' = [g_pc EXCEPT ![s] = "loop"]
    /\ loop_owner' = s
    /\ UNCHANGED <<streamer, produced>>
    /\ UNCHANGED <<g_caller, g_session, g_fn, g_question, g_docs, g_full, retrieve_calls>>
    /\ UNCHANGED <<botVars, histVars, request_no, proxyVars>>

\* lines 553-618: the readiness check, prompt, chat template, tokenizer,
\* streamer and thread start.  `raises` is an exception in any of the
\* statements after the check; they are outside every try block.
GStart(s) ==
    /\ IsRag(s)
    /\ g_pc[s] = "check"
    /\ LoopFree
    /\ IF ~llm_ready
       THEN /\ g_out' = [g_out EXCEPT ![s] = Append(@, ErrorEvent("LLM not initialized"))]
            /\ g_pc' = [g_pc EXCEPT ![s] = "done"]
            /\ UNCHANGED <<g_prompt, g_prompt_from, threadVars, loop_owner>>
       ELSE \E raises \in BOOLEAN :
            /\ g_prompt' = [g_prompt EXCEPT ![s] = conversation_history]
            /\ g_prompt_from' = [g_prompt_from EXCEPT ![s] = HistorySessions]
            /\ IF raises
               THEN /\ g_pc' = [g_pc EXCEPT ![s] = "raised"]
                    /\ UNCHANGED <<g_out, threadVars, loop_owner>>
               ELSE /\ thread' = [thread EXCEPT ![s] = "running"]
                    /\ g_pc' = [g_pc EXCEPT ![s] = "loop"]
                    /\ loop_owner' = s
                    /\ UNCHANGED <<g_out, streamer, produced>>
    /\ UNCHANGED <<g_caller, g_session, g_fn, g_question, g_docs, g_full, retrieve_calls>>
    /\ UNCHANGED <<botVars, histVars, request_no, proxyVars>>

\* GNext with the newest token event put in front of the earlier ones
GNext_Reordered(s) ==
    /\ IsRag(s)
    /\ g_pc[s] = "loop"
    /\ loop_owner = s
    /\ streamer[s] # <<>>
    /\ LET new_text == Head(streamer[s]) IN
        /\ streamer' = [streamer EXCEPT ![s] = Tail(@)]
        /\ IF new_text = StopSignal
           THEN /\ g_pc' = [g_pc EXCEPT ![s] = "join"]
                /\ UNCHANGED <<g_out, g_full, loop_owner>>
           ELSE IF new_text = ""
           THEN UNCHANGED <<g_pc, g_out, g_full, loop_owner>>
           ELSE /\ g_full' = [g_full EXCEPT ![s] = Append(@, new_text)]
                /\ g_out' = [g_out EXCEPT ![s] = <<TokenEvent(new_text)>> \o @]
                /\ g_pc' = [g_pc EXCEPT ![s] = "sleep"]
                /\ loop_owner' = NoLoopOwner
    /\ UNCHANGED <<g_caller, g_session, g_fn, g_question, g_docs, g_prompt, g_prompt_from, retrieve_calls, thread, produced>>
    /\ UNCHANGED <<botVars, histVars, request_no, proxyVars>>

\* lines 624-631: one iteration of `for new_text in streamer`.  The task
\* holds the event loop while streamer.__next__ blocks on the queue.
GNext(s) ==
    /\ IsRag(s)
    /\ g_pc[s] = "loop"
    /\ loop_owner = s
    /\ streamer[s] # <<>>
    /\ LET new_text == Head(streamer[s]) IN
        /\ streamer' = [streamer EXCEPT ![s] = Tail(@)]
        /\ IF new_text = StopSignal
           THEN /\ g_pc' = [g_pc EXCEPT ![s] = "join"]
                /\ UNCHANGED <<g_out, g_full, loop_owner>>
           ELSE IF new_text = ""
           THEN UNCHANGED <<g_pc, g_out, g_full, loop_owner>>
           ELSE /\ g_full' = [g_full EXCEPT ![s] = Append(@, new_text)]
                /\ g_out' = [g_out EXCEPT ![s] = Append(@, TokenEvent(new_text))]
                /\ g_pc' = [g_pc EXCEPT ![s] = "sleep"]
                /\ loop_owner' = NoLoopOwner
    /\ UNCHANGED <<g_caller, g_session, g_fn, g_question, g_docs, g_prompt, g_prompt_from, retrieve_calls, thread, produced>>
    /\ UNCHANGED <<botVars, histVars, request_no, proxyVars>>

\* line 631 -> 624: the task is resumed after `await asyncio.sleep(0.01)` and
\* goes back to the blocking iterator; `raises` is an exception raised
\* inside the try block at this point
GWake(s) ==
    /\ IsRag(s)
    /\ g_pc[s] = "sleep"
    /\ LoopFree
    /\ \E raises \in BOOLEAN :
        IF raises
        THEN /\ g_pc' = [g_pc EXCEPT ![s] = "except"]
             /\ loop_owner' = s
        ELSE /\ g_pc' = [g_pc EXCEPT ![s] = "loop"]
             /\ loop_owner' = s
    /\ UNCHANGED <<g_caller, g_session, g_fn, g_question, g_docs, g_out, g_full, g_prompt, g_prompt_from, retrieve_calls>>
    /\ UNCHANGED <<botVars, histVars, threadVars, request_no, proxyVars>>

\* lines 632-655: thread.join() and the sources block
GJoin(s) ==
    /\ IsRag(s)
    /\ g_pc[s] = "join"
    /\ loop_owner = s
    /\ thread[s] # "running"
    /\ \E raises \in BOOLEAN :
        IF raises
        THEN /\ g_pc' = [g_pc EXCEPT ![s] = "except"]
             /\ UNCHANGED <<g_out, g_full, loop_owner>>
        ELSE LET sources == SourceSet(g_docs[s]) IN
             IF sources # {}
             THEN /\ g_out' = [g_out EXCEPT ![s] = Append(@, SourcesEvent(SortedSources(sources)))]
                  /\ g_full' = [g_full EXCEPT ![s] = @ \o SourcesMarkdown(SortedSources(sources))]
                  /\ g_pc' = [g_pc EXCEPT ![s] = "finally"]
                  /\ loop_owner' = NoLoopOwner
             ELSE /\ g_pc' = [g_pc EXCEPT ![s] = "finally"]
                  /\ UNCHANGED <<g_out, g_full, loop_owner>>
    /\ UNCHANGED <<g_caller, g_session, g_fn, g_question, g_docs, g_prompt, g_prompt_from, retrieve_calls>>
    /\ UNCHANGED <<botVars, histVars, threadVars, request_no, proxyVars>>

\* GExcept as if the try/except were inside the token loop: after the error
\* event the loop goes on
GExcept_Resumes(s) ==
    /\ IsRag(s)
    /\ g_pc[s] = "except"
    /\ loop_owner = s
    /\ g_out' = [g_out EXCEPT ![s] = Append(@, ErrorEvent("Error during generation"))]
    /\ g_pc' = [g_pc EXCEPT ![s] = "sleep"]
    /\ loop_owner' = NoLoopOwner
    /\ UNCHANGED <<g_caller, g_session, g_fn, g_question, g_docs, g_full, g_prompt, g_prompt_from, retrieve_calls>>
    /\ UNCHANGED <<botVars, histVars, threadVars, request_no, proxyVars>>

\* lines 658-661: except Exception -> one error event
GExcept(s) ==
    /\ IsRag(s)
    /\ g_pc[s] = "except"
    /\ loop_owner = s
    /\ g_out' = [g_out EXCEPT ![s] = Append(@, ErrorEvent("Error during generation"))]
    /\ g_pc' = [g_pc EXCEPT ![s] = "finally"]
    /\ loop_owner' = NoLoopOwner
    /\ UNCHANGED <<g_caller, g_session, g_fn, g_question, g_docs, g_full, g_prompt, g_prompt_from, retrieve_calls>>
    /\ UNCHANGED <<botVars, histVars, threadVars, request_no, proxyVars>>

\* lines 662-667: finally: join a live thread, then yield end
GFinally(s) ==
    /\ IsRag(s)
    /\ g_pc[s] = "finally"
    /\ CanRun(s)
    /\ thread[s] # "running"
    /\ g_out' = [g_out EXCEPT ![s] = Append(@, EndEvent)]
    /\ g_pc' = [g_pc EXCEPT ![s] = "commit"]
    /\ loop_owner' = NoLoopOwner
    /\ UNCHANGED <<g_caller, g_session, g_fn, g_question, g_docs, g_full, g_prompt, g_prompt_from, retrieve_calls>>
    /\ UNCHANGED <<botVars, histVars, threadVars, request_no, proxyVars>>

\* lines 668-672: the code after `yield end`, run when the consumer asks for
\* the next item
GCommit(s) ==
    /\ IsRag(s)
    /\ g_pc[s] = "commit"
    /\ LoopFree
    /\ IF g_question[s] # "" /\ g_full[s] # <<>>
       THEN /\ conversation_history' = add_to_history(conversation_history, g_question[s], g_full[s])
            /\ appended_turns' = Append(appended_turns, [human |-> g_question[s], ai |-> g_full[s]])
            /\ turn_session' = Append(turn_session, g_session[s])
       ELSE UNCHANGED histVars
    /\ g_pc' = [g_pc EXCEPT ![s] = "done"]
    /\ UNCHANGED <<botVars, g_caller, g_session, g_fn, g_question, g_docs, g_out, g_full, g_prompt, g_prompt_from, retrieve_calls>>
    /\ UNCHANGED <<threadVars, loop_owner, request_no, proxyVars>>

\* The consumer abandons the response (client disconnect): the suspended
\* generator is closed, GeneratorExit is raised at the yield where it waits.
\* After `yield end` (line 667) the exception leaves the finally block and the
\* lines after it are not run.  At the yields of the try and except blocks
\* (630, 652, 661) it is not an Exception, so control goes to the finally
\* block, which runs on the event loop.
GClose(s) ==
    /\ IsRag(s)
    /\ LoopFree
    /\ service = "django_live" => p_pc # "stream"
    /\ \/ /\ g_pc[s] = "commit"
          /\ g_pc' = [g_pc EXCEPT ![s] = "closed"]
          /\ UNCHANGED loop_owner
       \/ /\ g_pc[s] \in {"sleep", "finally"}
          /\ g_pc' = [g_pc EXCEPT ![s] = "closing"]
          /\ loop_owner' = s
    /\ UNCHANGED <<g_caller, g_session, g_fn, g_question, g_docs, g_out, g_full, g_prompt, g_prompt_from, retrieve_calls>>
    /\ UNCHANGED <<botVars, histVars, threadVars, request_no, proxyVars>>

\* GCloseJoin that stops the worker instead of waiting for it
GCloseJoin_Cancels(s) ==
    /\ IsRag(s)
    /\ g_pc[s] = "closing"
    /\ loop_owner = s
    /\ thread' = [thread EXCEPT ![s] = IF @ = "running" THEN "cancelled" ELSE @]
    /\ g_pc' = [g_pc EXCEPT ![s] = "closed"]
    /\ loop_owner' = NoLoopOwner
    /\ UNCHANGED <<streamer, produced>>
    /\ UNCHANGED <<g_caller, g_session, g_fn, g_question, g_docs, g_out, g_full, g_prompt, g_prompt_from, retrieve_calls>>
    /\ UNCHANGED <<botVars, histVars, request_no, proxyVars>>

\* lines 662-667 in a generator that is being closed: `if thread.is_alive():
\* thread.join()` waits for the worker; the `yield` that follows is refused
\* (RuntimeError: async generator ignored GeneratorExit) and the generator is
\* finalized without running lines 668-672
GCloseJoin(s) ==
    /\ IsRag(s)
    /\ g_pc[s] = "closing"
    /\ loop_owner = s
    /\ thread[s] # "running"
    /\ g_pc' = [g_pc EXCEPT ![s] = "closed"]
    /\ loop_owner' = NoLoopOwner
    /\ UNCHANGED <<g_caller, g_session, g_fn, g_question, g_docs, g_out, g_full, g_prompt, g_prompt_from, retrieve_calls>>
    /\ UNCHANGED <<botVars, histVars, threadVars, request_no, proxyVars>>

\* ------------------------------------------------- generation worker
\* llm_model.generate on the worker thread puts one decoded piece on the
\* streamer queue
WorkerPut(s) ==
    /\ thread[s] = "running"
    /\ Len(produced[s]) < MaxTokens
    /\ \E piece \in {"", TokenText[Len(produced[s]) + 1]} :
        /\ streamer' = [streamer EXCEPT ![s] = Append(@, piece)]
        /\ produced' = [produced EXCEPT ![s] = Append(@, piece)]
    /\ UNCHANGED <<thread, botVars, histVars, sessVars, loop_owner, request_no, proxyVars>>

\* generate returns: streamer.end() puts the stop signal, the thread exits
WorkerEnd(s) ==
    /\ thread[s] = "running"
    /\ streamer' = [streamer EXCEPT ![s] = Append(@, StopSignal)]
    /\ thread' = [thread EXCEPT ![s] = "finished"]
    /\ UNCHANGED <<produced, botVars, histVars, sessVars, loop_owner, request_no, proxyVars>>

\* generate raises on the worker thread: the thread dies, nothing is put
WorkerFail(s) ==
    /\ thread[s] = "running"
    /\ thread' = [thread EXCEPT ![s] = "failed"]
    /\ UNCHANGED <<streamer, produced, botVars, histVars, sessVars, loop_owner, request_no, proxyVars>>


\* The response of slot s is complete (the generator returned or raised and
\* the server released it); the slot takes the service's next request.
NextRequest(s) ==
    /\ service \in {"rag_server", "gpu_inference", "llm_service"}
    /\ g_pc[s] \in {"done", "raised", "closed"}
    /\ thread[s] # "running"
    /\ request_no < MaxRequests - 1
    /\ request_no' = request_no + 1
    /\ g_caller' = [g_caller EXCEPT ![s] = "none"]
    /\ g_session' = [g_session EXCEPT ![s] = NoChatSession]
    /\ g_fn' = [g_fn EXCEPT ![s] = "none"]
    /\ g_pc' = [g_pc EXCEPT ![s] = "idle"]
    /\ g_question' = [g_question EXCEPT ![s] = ""]
    /\ g_docs' = [g_docs EXCEPT ![s] = <<>>]
    /\ g_out' = [g_out EXCEPT ![s] = <<>>]
    /\ g_full' = [g_full EXCEPT ![s] = <<>>]
    /\ g_prompt' = [g_prompt EXCEPT ![s] = <<>>]
    /\ g_prompt_from' = [g_prompt_from EXCEPT ![s] = <<>>]
    /\ retrieve_calls' = [retrieve_calls EXCEPT ![s] = <<>>]
    /\ thread' = [thread EXCEPT ![s] = "none"]
    /\ streamer' = [streamer EXCEPT ![s] = <<>>]
    /\ produced' = [produced EXCEPT ![s] = <<>>]
    /\ UNCHANGED <<botVars, histVars, loop_owner, proxyVars>>

\* -------------------------------- llm_service/server.py stream_generator
IsLlm(s) == g_fn[s] = "stream_generator"

\* server.py POST /generate
GenerateStream(s) ==
    /\ service = "llm_service"
    /\ LoopFree
    /\ g_pc[s] = "idle"
    /\ g_caller' = [g_caller EXCEPT ![s] = "generate"]
    /\ g_session' = g_session
    /\ g_fn' = [g_fn EXCEPT ![s] = "stream_generator"]
    /\ \E q \in Questions : g_question' = [g_question EXCEPT ![s] = q]
    /\ g_pc' = [g_pc EXCEPT ![s] = "check"]
    /\ UNCHANGED <<g_docs, g_out, g_full, g_prompt, g_prompt_from, retrieve_calls>>
    /\ UNCHANGED <<botVars, histVars, threadVars, loop_owner, request_no, proxyVars>>

\* lines 92-112: the readiness check (outside the try), then streamer,
\* chat template and thread start inside the try
SGStart(s) ==
    /\ IsLlm(s)
    /\ g_pc[s] = "check"
    /\ LoopFree
    /\ IF ~llm_ready
       THEN /\ g_out' = [g_out EXCEPT ![s] = Append(@, ErrorEvent("Model not ready"))]
            /\ g_pc' = [g_pc EXCEPT ![s] = "done"]
            /\ UNCHANGED <<threadVars, loop_owner>>
       ELSE \E raises \in BOOLEAN :
            /\ loop_owner' = s
            /\ g_out' = g_out
            /\ IF raises
               THEN /\ g_pc' = [g_pc EXCEPT ![s] = "except"]
                    /\ UNCHANGED threadVars
               ELSE /\ thread' = [thread EXCEPT ![s] = "running"]
                    /\ g_pc' = [g_pc EXCEPT ![s] = "loop"]
                    /\ UNCHANGED <<streamer, produced>>
    /\ UNCHANGED <<g_caller, g_session, g_fn, g_question, g_docs, g_full, g_prompt, g_prompt_from, retrieve_calls>>
    /\ UNCHANGED <<botVars, histVars, request_no, proxyVars>>

\* lines 115-121: one iteration of `for token_text in streamer`; when the
\* iterator stops, thread.join()
SGNext(s) ==
    /\ IsLlm(s)
    /\ g_pc[s] = "loop"
    /\ loop_owner = s
    /\ streamer[s] # <<>>
    /\ LET token_text == Head(streamer[s]) IN
        /\ streamer' = [streamer EXCEPT ![s] = Tail(@)]
        /\ IF token_text = StopSignal
           THEN /\ thread[s] # "running"
                /\ g_pc' = [g_pc EXCEPT ![s] = "finally"]
                /\ UNCHANGED <<g_out, loop_owner>>
           ELSE IF token_text = ""
           THEN UNCHANGED <<g_pc, g_out, loop_owner>>
           ELSE /\ g_out' = [g_out EXCEPT ![s] = Append(@, DataOnlyEvent(token_text))]
                /\ g_pc' = [g_pc EXCEPT ![s] = "sleep"]
                /\ loop_owner' = NoLoopOwner
    /\ UNCHANGED <<g_caller, g_session, g_fn, g_question, g_docs, g_full, g_prompt, g_prompt_from, retrieve_calls, thread, produced>>
    /\ UNCHANGED <<botVars, histVars, request_no, proxyVars>>

\* line 119 -> 115: resumed after `await asyncio.sleep(0.01)`
SGWake(s) ==
    /\ IsLlm(s)
    /\ g_pc[s] = "sleep"
    /\ LoopFree
    /\ \E raises \in BOOLEAN :
        g_pc' = [g_pc EXCEPT ![s] = IF raises THEN "except" ELSE "loop"]
    /\ loop_owner' = s
    /\ UNCHANGED <<g_caller, g_session, g_fn, g_question, g_docs, g_out, g_full, g_prompt, g_prompt_from, retrieve_calls>>
    /\ UNCHANGED <<botVars, histVars, threadVars, request_no, proxyVars>>

\* lines 124-126: except Exception -> one error event
SGExcept(s) ==
    /\ IsLlm(s)
    /\ g_pc[s] = "except"
    /\ loop_owner = s
    /\ g_out' = [g_out EXCEPT ![s] = Append(@, ErrorEvent("Error during generation"))]
    /\ g_pc' = [g_pc EXCEPT ![s] = "finally"]
    /\ loop_owner' = NoLoopOwner
    /\ UNCHANGED <<g_caller, g_session, g_fn, g_question, g_docs, g_full, g_prompt, g_prompt_from, retrieve_calls>>
    /\ UNCHANGED <<botVars, histVars, threadVars, request_no, proxyVars>>

\* lines 127-128: finally: yield end
SGFinally(s) ==
    /\ IsLlm(s)
    /\ g_pc[s] = "finally"
    /\ CanRun(s)
    /\ g_out' = [g_out EXCEPT ![s] = Append(@, EndEvent)]
    /\ g_pc' = [g_pc EXCEPT ![s] = "done"]
    /\ loop_owner' = NoLoopOwner
    /\ UNCHANGED <<g_caller, g_session, g_fn, g_question, g_docs, g_full, g_prompt, g_prompt_from, retrieve_calls>>
    /\ UNCHANGED <<botVars, histVars, threadVars, request_no, proxyVars>>

\* ----------------------- api/views.py rag_service_sse_proxy_generator
\* the rag_server session that serves the proxy's request
Upstream == "s1"
Live == service = "django_live"
Scripted == service = "django_scripted"

\* chunks an arbitrary upstream may send
ScriptChunks ==
    { TokenEvent(TokenText[1]), TokenEvent(TokenText[2]),
      Chunk("token", "invalid", "", <<>>, ""), Chunk("token", "missing", "", <<>>, ""),
      SourcesEvent(<<"x">>), Chunk("sources", "invalid", "", <<>>, ""),
      ErrorEvent("upstream"), EndEvent, TextChunk("[Error]") }

\* How the transport frames the upstream's events into the chunks that
\* response.aiter_text() returns.  The code looks at a chunk with
\* chunk.startswith("event: ...") and at its first `data:` line (213-259), so
\* a chunk of several events shows it the first of them (ev, data, text,
\* srcs), and a chunk that begins inside an event line shows it no event.
Coalesced(e1, e2) ==
    [ev |-> e1.ev, data |-> e1.data, text |-> e1.text, srcs |-> e1.srcs, id |-> e1.id, more |-> <<e2>>]
\* an event cut inside its `event:` line: the part before and the part after
HeadPart(e) == [ev |-> "partial", data |-> "missing", text |-> "", srcs |-> <<>>, id |-> "", head_of |-> e]
TailPart(e) == [ev |-> "partial", data |-> "missing", text |-> "", srcs |-> <<>>, id |-> "", tail_of |-> e]
IsHead(chunk) == "head_of" \in DOMAIN chunk
IsTail(chunk) == "tail_of" \in DOMAIN chunk

SplitEvents == {TokenEvent(TokenText[1]), ErrorEvent("upstream"), EndEvent}
FramedChunks ==
    { Coalesced(TokenEvent(TokenText[1]), TokenEvent(TokenText[2])),
      Coalesced(TokenEvent(TokenText[1]), ErrorEvent("upstream")),
      Coalesced(SourcesEvent(<<"x">>), EndEvent) }
    \cup {HeadPart(e) : e \in SplitEvents} \cup {TailPart(e) : e \in SplitEvents}

\* the second part of a split event comes right after the first
InFrame(seq, chunk) ==
    /\ IsTail(chunk) => seq # <<>> /\ seq[Len(seq)] = HeadPart(chunk.tail_of)
    /\ (seq # <<>> /\ IsHead(seq[Len(seq)])) => chunk = TailPart(seq[Len(seq)].head_of)

ExceptionKinds == {"RequestError", "StreamError", "Exception"}

\* ---------------------------- api/views.py ProcessChatMessageView.get
\* the Authorization header: absent, of another scheme, or `Bearer <token>`
AuthHeaders == {"", "Basic", "Bearer"}
\* what AccessToken(token) and access_token.get('user_id') make of the token
Tokens == {"valid", "invalid", "expired", "no_user_id"}
\* the session_id parameter: absent, "new", the id of a ChatSession of the
\* user, the id of a ChatSession of another user, an id no row has, or a
\* string that is no id
SessionIds == {"", "new", "own", "other", "unknown", "malformed"}
\* the user the token resolves to, and the owner of the other ChatSession
AuthenticatedUser == "alice"
OtherUser == "bob"
\* the ChatSession rows that exist when the request arrives
ChatSessionRows == {[id |-> "own", user |-> AuthenticatedUser], [id |-> "other", user |-> OtherUser]}
\* the row ChatSession.objects.create makes for the user
NewSession(user) == [id |-> "created", user |-> user]

\* ChatSession.objects.get that looks the row up by id alone
ChatSession_objects_get_AnyUser(id, user) ==
    IF id = "malformed" THEN [exc |-> "ValueError", row |-> NoSessionRow]
    ELSE LET rows == {r \in ChatSessionRows : r.id = id}
         IN IF rows = {} THEN [exc |-> "DoesNotExist", row |-> NoSessionRow]
            ELSE [exc |-> "none", row |-> CHOOSE r \in rows : TRUE]

\* lines 381-384: ChatSession.objects.get(id=session_id_str, user=user)
ChatSession_objects_get(id, user) ==
    IF id = "malformed" THEN [exc |-> "ValueError", row |-> NoSessionRow]
    ELSE LET rows == {r \in ChatSessionRows : r.id = id /\ r.user = user}
         IN IF rows = {} THEN [exc |-> "DoesNotExist", row |-> NoSessionRow]
            ELSE [exc |-> "none", row |-> CHOOSE r \in rows : TRUE]

\* lines 377-396: the session of the request: the one looked up, when the
\* parameter is given, is not "new" and the lookup succeeds (ValueError and
\* DoesNotExist are passed over), else a new one of the user
SessionOf(session_id_str, user) ==
    LET found == IF session_id_str # "" /\ session_id_str # "new"
                 THEN ChatSession_objects_get(session_id_str, user)
                 ELSE [exc |-> "not asked", row |-> NoSessionRow]
    IN IF found.exc = "none"
       THEN [chat_session |-> found.row, created |-> 0]
       ELSE [chat_session |-> NewSession(user), created |-> 1]
Requests ==
    [query_text : Questions, auth_header : AuthHeaders, token : Tokens,
     user_exists : BOOLEAN, session_id : SessionIds]

Accepted == "ok"

\* lines 334-340, 345-351, 368-374: the generator of a validation failure
error_gen(msg) == <<ErrorEvent(msg), EndEvent>>

\* Validation that does not look the user up
Validation_TrustsToken(req) ==
    IF req.query_text = "" THEN "Missing required parameter: query"
    ELSE IF req.auth_header # "Bearer" THEN "Authentication required"
    ELSE IF req.token # "valid" THEN "Invalid authentication token"
    ELSE Accepted

\* lines 333, 344, 356-367: the checks of the view, in their order; the error
\* message of the first that fails
Validation(req) ==
    IF req.query_text = "" THEN "Missing required parameter: query"
    ELSE IF req.auth_header # "Bearer" THEN "Authentication required"
    ELSE IF req.token # "valid" \/ ~req.user_exists THEN "Invalid authentication token"
    ELSE Accepted

\* lines 326-411: the whole view.  create_ok is whether
\* Interaction.objects.create succeeds; when it raises the exception leaves
\* the view and no stream is opened.
ProcessChatMessageView_get ==
    /\ p_pc = "request"
    /\ \E req \in Requests, create_ok \in BOOLEAN :
        /\ request' = req
        /\ IF Validation(req) # Accepted
           THEN /\ client' = error_gen(Validation(req))
                /\ p_pc' = "rejected"
                /\ UNCHANGED <<chat_sessions_created, chat_session, interaction, db>>
           ELSE /\ chat_sessions_created' = SessionOf(req.session_id, AuthenticatedUser).created
                /\ chat_session' = SessionOf(req.session_id, AuthenticatedUser).chat_session
                /\ IF create_ok
                   THEN /\ interaction' = [NoInteraction EXCEPT !.id = InteractionId]
                        /\ db' = [NoRow EXCEPT !.writes = 1]
                        /\ p_pc' = "start"
                   ELSE /\ p_pc' = "http_error"
                        /\ UNCHANGED <<interaction, db>>
                /\ UNCHANGED client
    /\ UNCHANGED <<full_response_text, error_occurred, up_status, up_count, p_exc>>
    /\ UNCHANGED <<elapsed, save_calls, own_ends, received>>
    /\ UNCHANGED <<botVars, histVars, sessVars, threadVars, request_no, loop_owner>>

\* lines 168-173: yield the init event
PInit ==
    /\ p_pc = "start"
    /\ client' = Append(client, InitEvent(interaction.id))
    /\ p_pc' = "connect"
    /\ UNCHANGED <<full_response_text, error_occurred, interaction, db, up_status, up_count, p_exc>>
    /\ UNCHANGED <<elapsed, save_calls, own_ends>>
    /\ UNCHANGED <<viewVars, received>>
    /\ UNCHANGED <<botVars, histVars, sessVars, threadVars, request_no, loop_owner>>

\* lines 176-178 raising: the POST cannot be made
PConnectFails ==
    /\ p_pc = "connect"
    /\ \E kind \in {"RequestError", "Exception"} : p_exc' = kind
    /\ p_pc' = "handler"
    /\ UNCHANGED <<client, full_response_text, error_occurred, interaction, db, up_status, up_count>>
    /\ UNCHANGED <<elapsed, save_calls, own_ends>>
    /\ UNCHANGED <<viewVars, received>>
    /\ UNCHANGED <<botVars, histVars, sessVars, threadVars, request_no, loop_owner>>

\* lines 178-191: the response headers arrive; a status other than 200 is
\* reported and the generator returns
PResponse ==
    /\ p_pc = "connect"
    /\ \E status \in (IF Live THEN {StatusOK} ELSE UpstreamStatuses) :
        /\ up_status' = status
        /\ IF status # StatusOK
           THEN /\ interaction' = [interaction EXCEPT !.error_message = "RAG service returned error"]
                /\ error_occurred' = TRUE
                /\ client' = Append(client, ProxyErrorEvent("RAG service returned error", interaction.id))
                /\ p_pc' = "finally"
           ELSE /\ p_pc' = "stream"
                /\ UNCHANGED <<interaction, error_occurred, client>>
    /\ IF Live
       THEN /\ LoopFree
            /\ EndpointCall(Upstream, request.query_text)
       ELSE UNCHANGED sessVars
    /\ UNCHANGED <<full_response_text, db, up_count, p_exc>>
    /\ UNCHANGED <<elapsed, save_calls, own_ends>>
    /\ UNCHANGED <<viewVars, received>>
    /\ UNCHANGED <<botVars, histVars, threadVars, request_no, loop_owner>>

\* Accumulated that leaves the header out of the sources block
Accumulated_BareList(chunk) ==
    IF chunk.ev = "token" /\ chunk.data = "ok" THEN <<chunk.text>>
    ELSE IF chunk.ev = "sources" /\ chunk.data = "ok" /\ chunk.srcs # <<>>
    THEN [i \in 1..Len(chunk.srcs) |-> "- " \o chunk.srcs[i]]
    ELSE <<>>

\* lines 229 and 249-250: the text a chunk adds to full_response_text
Accumulated(chunk) ==
    IF chunk.ev = "token" /\ chunk.data = "ok" THEN <<chunk.text>>
    ELSE IF chunk.ev = "sources" /\ chunk.data = "ok" /\ chunk.srcs # <<>> THEN SourcesMarkdown(chunk.srcs)
    ELSE <<>>

\* KeepAlive that also pings when exactly 15 seconds have passed
KeepAlive_AtFifteen(gap) == IF gap >= KeepAliveSeconds THEN <<PingLine>> ELSE <<>>

\* lines 197-201: the keep-alive comment line, when more than 15 seconds have
\* passed since the last activity
KeepAlive(gap) == IF gap > KeepAliveSeconds THEN <<PingLine>> ELSE <<>>

\* AfterChunk without the break
AfterChunk_NoBreak(chunk) == "stream"

\* lines 257-259: an `end` chunk breaks the read loop
AfterChunk(chunk) == IF chunk.ev = "end" THEN "finally" ELSE "stream"

\* ProxyForward in which a chunk that cannot be parsed marks the session as
\* failed
ProxyForward_ParseFatal(chunk, gap) ==
    /\ elapsed' = gap
    /\ client' = client \o KeepAlive(gap) \o <<chunk>>
    /\ up_count' = up_count + 1
    /\ received' = Append(received, chunk)
    /\ full_response_text' = full_response_text \o Accumulated(chunk)
    /\ error_occurred' = (error_occurred \/ chunk.ev = "error" \/ chunk.data = "invalid")
    /\ p_pc' = AfterChunk(chunk)
    /\ UNCHANGED <<interaction, db, up_status, p_exc, save_calls, own_ends>>

\* lines 196-261: one iteration of `async for chunk in response.aiter_text()`
\* for a chunk that arrives `gap` seconds after the last activity
ProxyForward(chunk, gap) ==
    /\ elapsed' = gap
    /\ client' = client \o KeepAlive(gap) \o <<chunk>>
    /\ up_count' = up_count + 1
    /\ received' = Append(received, chunk)
    /\ full_response_text' = full_response_text \o Accumulated(chunk)
    /\ error_occurred' = (error_occurred \/ chunk.ev = "error")
    /\ p_pc' = AfterChunk(chunk)
    /\ UNCHANGED <<interaction, db, up_status, p_exc, save_calls, own_ends>>

\* a chunk from an arbitrary upstream
PChunkScripted ==
    /\ Scripted
    /\ p_pc = "stream"
    /\ up_count < MaxScript
    /\ \E chunk \in ScriptChunks \cup FramedChunks, gap \in Gaps :
        /\ InFrame(received, chunk)
        /\ ProxyForward(chunk, gap)
    /\ UNCHANGED viewVars
    /\ UNCHANGED <<botVars, histVars, sessVars, threadVars, request_no, loop_owner>>

\* a chunk written by the rag_server session
PChunkLive ==
    /\ Live
    /\ p_pc = "stream"
    /\ up_count < Len(g_out[Upstream])
    /\ \E gap \in Gaps : ProxyForward(g_out[Upstream][up_count + 1], gap)
    /\ UNCHANGED viewVars
    /\ UNCHANGED <<botVars, histVars, sessVars, threadVars, request_no, loop_owner>>

\* line 266: the upstream closes the response body normally
PStreamEnds ==
    /\ p_pc = "stream"
    /\ Live => (g_pc[Upstream] = "done" /\ up_count = Len(g_out[Upstream]))
    /\ p_pc' = "finally"
    /\ UNCHANGED <<client, full_response_text, error_occurred, interaction, db, up_status, up_count, p_exc>>
    /\ UNCHANGED <<elapsed, save_calls, own_ends>>
    /\ UNCHANGED <<viewVars, received>>
    /\ UNCHANGED <<botVars, histVars, sessVars, threadVars, request_no, loop_owner>>

\* lines 262-264: the iteration raises; a rag_server generator that raised
\* breaks the response body, which httpx reports as a RequestError
PStreamRaises ==
    /\ p_pc = "stream"
    /\ \E kind \in ExceptionKinds :
        /\ (Live /\ g_pc[Upstream] = "raised") => kind = "RequestError"
        /\ p_exc' = kind
    /\ p_pc' = "handler"
    /\ UNCHANGED <<client, full_response_text, error_occurred, interaction, db, up_status, up_count>>
    /\ UNCHANGED <<elapsed, save_calls, own_ends>>
    /\ UNCHANGED <<viewVars, received>>
    /\ UNCHANGED <<botVars, histVars, sessVars, threadVars, request_no, loop_owner>>

ErrorKind(exc) ==
    CASE exc = "RequestError" -> "RAG Service Connection Error"
      [] exc = "StreamError" -> "RAG Service Stream Error"
      [] OTHER -> "Internal Server Error"

\* lines 268-288: the three except clauses
PHandler ==
    /\ p_pc = "handler"
    /\ interaction' = [interaction EXCEPT !.error_message = p_exc]
    /\ error_occurred' = TRUE
    /\ client' = client \o <<ProxyErrorEvent(ErrorKind(p_exc), interaction.id), EndEvent>>
    /\ p_pc' = "finally"
    /\ UNCHANGED <<full_response_text, db, up_status, up_count, p_exc>>
    /\ own_ends' = own_ends + 1
    /\ UNCHANGED <<elapsed, save_calls>>
    /\ UNCHANGED <<viewVars, received>>
    /\ UNCHANGED <<botVars, histVars, sessVars, threadVars, request_no, loop_owner>>

\* line 310: the proxy's own end event
FinalEnd(err) == IF ~err THEN <<EndEvent>> ELSE <<>>

\* Completion that stores the text whether or not an error occurred
Completion_IgnoresError(record, text, err) ==
    IF text # <<>> THEN [record EXCEPT !.final_response_text = text] ELSE record

\* lines 291-296: the Interaction instance after the assignment of
\* final_response_text
Completion(record, text, err) ==
    IF text # <<>> /\ ~err THEN [record EXCEPT !.final_response_text = text] ELSE record

\* AfterSave with the exception of a failed save leaving the generator
AfterSave_Propagates(save_ok, err) ==
    IF save_ok THEN [events |-> FinalEnd(err), pc |-> "done"]
    ELSE [events |-> <<>>, pc |-> "raised"]

\* lines 299-314: what follows the call of interaction.save(): an exception
\* it raises is logged by `except Exception as save_err`, and the generator
\* goes on to its final end event
AfterSave(save_ok, err) == [events |-> FinalEnd(err), pc |-> "done"]

\* lines 289-314: the finally block; save_ok is whether interaction.save()
\* succeeds
PFinally ==
    /\ p_pc = "finally"
    /\ \E save_ok \in BOOLEAN :
        LET saved == Completion(interaction, full_response_text, error_occurred)
        IN /\ interaction' = saved
           /\ db' = IF save_ok
                    THEN [error_message |-> saved.error_message,
                          final_response_text |-> saved.final_response_text,
                          writes |-> db.writes + 1]
                    ELSE db
           /\ client' = client \o AfterSave(save_ok, error_occurred).events
           /\ own_ends' = own_ends + Len(AfterSave(save_ok, error_occurred).events)
           /\ p_pc' = AfterSave(save_ok, error_occurred).pc
    /\ save_calls' = save_calls + 1
    /\ UNCHANGED <<full_response_text, error_occurred, up_status, up_count, p_exc, elapsed>>
    /\ UNCHANGED <<viewVars, received>>
    /\ UNCHANGED <<botVars, histVars, sessVars, threadVars, request_no, loop_owner>>

\* ------------------------------------------- hybrid retrieval: inputs
NumDocs == 3
MaxSparseScore == 2
OverRetrieveKs == {1, 2}
FinalKs == {1, 2}

\* page_content of the corpus documents; two documents may hold the same text
PageContents == <<"A", "B", "C", "D", "E">>
\* a stored vector-store document that is not in all_documents, and its text
Foreign == 0
ForeignContent == "Z"
\* metadata.get("rerank_score"): the value of the key in a one-element
\* sequence, the empty sequence when metadata has no such key
NoScore == <<>>

Document(content) == [page_content |-> content, rerank_score |-> NoScore]

\* the corpus of NumDocs documents in which document j repeats the text of
\* document i (i = j: every text is distinct)
Corpus(i, j) ==
    [d \in 1..NumDocs |-> Document(IF d = j THEN PageContents[i] ELSE PageContents[d])]
Corpora ==
    {<<>>} \cup {Corpus(p[1], p[2]) : p \in {q \in (1..NumDocs) \X (1..NumDocs) : q[1] <= q[2]}}
DistinctContents(docs) ==
    \A i, j \in 1..Len(docs) : docs[i].page_content = docs[j].page_content => i = j

\* sequences without repetition over the set S, of length at most n
RECURSIVE Rankings(_, _)
Rankings(S, n) ==
    IF n = 0 THEN {<<>>}
    ELSE {<<>>} \cup UNION {{<<x>> \o r : r \in Rankings(S \ {x}, n - 1)} : x \in S}

\* what vectorstore.similarity_search_with_score(query, k) can return: at most
\* k stored documents, best first
DenseResults(k) == Rankings((1..Len(all_documents)) \cup {Foreign}, k)
\* what bm25_index.get_scores can return: one score per document of the
\* index, which may have been built from a corpus of another length
ScoreArrays(n) == [1..n -> 0..MaxSparseScore]
SparseScores ==
    ScoreArrays(Len(all_documents))
    \cup {[i \in 1..(Len(all_documents) + 1) |-> 1]}
    \cup (IF Len(all_documents) # 1 THEN {<<0>>, <<1>>} ELSE {})
\* get_scores returns a numpy array: its truth value (`elif sparse_scores:`)
\* is that of its element when it has one, and raises ValueError when it has
\* more
TruthValueRaises(scores) == Len(scores) > 1
\* what the cross-encoder can answer for n pairs
RerankGrades == {0, 1}
RerankAnswers(n) ==
    {[reranker |-> "no_model", rerank_scores |-> <<>>],
     [reranker |-> "predict_raises", rerank_scores |-> <<>>]}
    \cup {[reranker |-> "scores", rerank_scores |-> sc] : sc \in [1..n -> RerankGrades]}
NoRerank == [reranker |-> "unused", rerank_scores |-> <<>>]

\* --------------------------------------- hybrid retrieval: Python values
\* s[:n]
Prefix(s, n) == SubSeq(s, 1, IF n < Len(s) THEN n ELSE Len(s))
Front(s) == SubSeq(s, 1, Len(s) - 1)
Last(s) == s[Len(s)]

\* a dict, in insertion order, as a sequence of <<key, value>>
DictKeys(d) == [i \in 1..Len(d) |-> d[i][1]]
DictHas(d, key) == \E i \in 1..Len(d) : d[i][1] = key
DictGet(d, key, default) ==
    IF DictHas(d, key) THEN d[CHOOSE i \in 1..Len(d) : d[i][1] = key][2] ELSE default
\* d[key] = val: a key already present keeps its position
DictSet(d, key, val) ==
    IF DictHas(d, key)
    THEN [i \in 1..Len(d) |-> IF d[i][1] = key THEN <<key, val>> ELSE d[i]]
    ELSE Append(d, <<key, val>>)

\* scores are kept exact, as fractions <<numerator, denominator>>
Frac(n, d) == <<n, d>>
FracZero == Frac(0, 1)
FracAdd(x, y) == Frac(x[1] * y[2] + y[1] * x[2], x[2] * y[2])
FracLess(x, y) == x[1] * y[2] < y[1] * x[2]
FracEq(x, y) == x[1] * y[2] = y[1] * x[2]

\* x goes after every element whose key is greater than or equal to its own
InsertDesc(sorted, x, key) ==
    LET before == SelectSeq(sorted, LAMBDA y : ~FracLess(key[y], key[x]))
        after == SelectSeq(sorted, LAMBDA y : FracLess(key[y], key[x]))
    IN before \o <<x>> \o after

\* sorted(items, key=..., reverse=True): descending, and stable (elements of
\* equal key keep their order in items)
RECURSIVE sorted_reverse(_, _)
sorted_reverse(items, key) ==
    IF items = <<>> THEN <<>>
    ELSE InsertDesc(sorted_reverse(Front(items), key), Last(items), key)

\* ------------------------------------- RAGBot.retrieve_documents: fusion
k_rrf == 60

ContentOf(stored) ==
    IF stored = Foreign THEN ForeignContent ELSE all_documents[stored].page_content

\* {doc.page_content: rank for rank, (doc, score) in enumerate(results)}
RECURSIVE dense_ranks(_)
dense_ranks(results) ==
    IF results = <<>> THEN <<>>
    ELSE DictSet(dense_ranks(Front(results)), ContentOf(Last(results)), Len(results) - 1)

\* {doc.page_content: i for i, doc in enumerate(self.all_documents)}
RECURSIVE doc_content_to_index(_)
doc_content_to_index(docs) ==
    IF docs = <<>> THEN <<>>
    ELSE DictSet(doc_content_to_index(Front(docs)), Last(docs).page_content, Len(docs))

\* 1.0 / (k_rrf + rank)
Contribution(rank) == Frac(1, k_rrf + rank)

\* the loop over dense_ranks.items(), given the first items of the dict
RECURSIVE FuseDense(_, _)
FuseDense(items, index) ==
    IF items = <<>> THEN <<>>
    ELSE LET rrf == FuseDense(Front(items), index)
             content == Last(items)[1]
             rank == Last(items)[2]
         IN IF DictHas(index, content)
            THEN LET doc_index == DictGet(index, content, Foreign)
                 IN DictSet(rrf, doc_index,
                            FracAdd(DictGet(rrf, doc_index, FracZero), Contribution(rank)))
            ELSE rrf

sparse_ranked_indices(sparse_scores) ==
    sorted_reverse([i \in 1..Len(sparse_scores) |-> i],
                   [i \in 1..Len(sparse_scores) |-> Frac(sparse_scores[i], 1)])

\* FuseSparse that also counts the documents whose score is 0
RECURSIVE FuseSparse_NoScoreTest(_, _, _)
FuseSparse_NoScoreTest(rrf, ranked, sparse_scores) ==
    IF ranked = <<>> THEN rrf
    ELSE LET before == FuseSparse_NoScoreTest(rrf, Front(ranked), sparse_scores)
             doc_index == Last(ranked)
             rank == Len(ranked) - 1
         IN DictSet(before, doc_index,
                    FracAdd(DictGet(before, doc_index, FracZero), Contribution(rank)))

\* the loop over enumerate(sparse_ranked_indices[:num_sparse_for_fusion])
RECURSIVE FuseSparse(_, _, _)
FuseSparse(rrf, ranked, sparse_scores) ==
    IF ranked = <<>> THEN rrf
    ELSE LET before == FuseSparse(rrf, Front(ranked), sparse_scores)
             doc_index == Last(ranked)
             rank == Len(ranked) - 1
         IN IF sparse_scores[doc_index] > 0
            THEN DictSet(before, doc_index,
                         FracAdd(DictGet(before, doc_index, FracZero), Contribution(rank)))
            ELSE before

\* lines 468-494: the dict rrf_scores after both loops
rrf_scores(dense_results, sparse_scores) ==
    LET dense == FuseDense(dense_ranks(dense_results), doc_content_to_index(all_documents))
    IN IF Len(sparse_scores) = Len(all_documents)
       THEN FuseSparse(dense, Prefix(sparse_ranked_indices(sparse_scores), over_retrieve_k * 2),
                       sparse_scores)
       ELSE dense

\* lines 497-498
sorted_indices_by_rrf(rrf) ==
    sorted_reverse(DictKeys(rrf),
                   [idx \in {rrf[i][1] : i \in 1..Len(rrf)} |-> DictGet(rrf, idx, FracZero)])
\* top_indices_for_reranking without the cut to over_retrieve_k
top_indices_for_reranking_Uncut(rrf) == sorted_indices_by_rrf(rrf)

\* line 501: sorted_indices_by_rrf[:self.over_retrieve_k]
top_indices_for_reranking(rrf) == Prefix(sorted_indices_by_rrf(rrf), over_retrieve_k)

\* ------------------------------------------- RAGBot.rerank_documents
\* the fallback that gives nothing back
Fallback_Empty(docs) == <<>>

\* docs_for_reranking[:self.k], when there is no model or predict raises
Fallback(docs) == Prefix(docs, final_k)

\* sorted_docs in ascending order of score
sorted_docs_Ascending(docs, rerank_scores) ==
    sorted_reverse(docs,
                   [idx \in {docs[i] : i \in 1..Len(docs)} |->
                       Frac(0 - rerank_scores[CHOOSE i \in 1..Len(docs) : docs[i] = idx], 1)])

\* lines 405-412: the scores are stored on the documents and the list is
\* sorted by them
sorted_docs(docs, rerank_scores) ==
    sorted_reverse(docs,
                   [idx \in {docs[i] : i \in 1..Len(docs)} |->
                       Frac(rerank_scores[CHOOSE i \in 1..Len(docs) : docs[i] = idx], 1)])

\* the list rerank_documents returns for the candidates docs (corpus indices)
rerank_documents(docs, answer) ==
    IF docs = <<>> THEN <<>>
    ELSE IF answer.reranker = "no_model" THEN Fallback(docs)
    ELSE IF answer.reranker = "predict_raises" THEN Fallback(docs)
    ELSE Prefix(sorted_docs(docs, answer.rerank_scores), final_k)

\* doc.metadata["rerank_score"] = float(score) on the corpus documents
ScoredDocuments(docs, answer) ==
    IF docs # <<>> /\ answer.reranker = "scores"
    THEN [d \in 1..Len(all_documents) |->
            IF \E i \in 1..Len(docs) : docs[i] = d
            THEN [all_documents[d] EXCEPT
                    !.rerank_score = <<answer.rerank_scores[CHOOSE i \in 1..Len(docs) : docs[i] = d]>>]
            ELSE all_documents[d]]
    ELSE all_documents

\* the record of a call: what the collaborators answered (bm25_scores: the
\* scores the lexical index holds for the query, asked for or not) and the
\* locals of retrieve_documents
NoCall ==
    [op |-> "none", outcome |-> "none", dense |-> "none", dense_results |-> <<>>, bm25_scores |-> <<>>,
     sparse |-> "none", sparse_scores |-> <<>>,
     docs_for_reranking |-> <<>>, reranker |-> "unused", rerank_scores |-> <<>>]

\* the except clause of retrieve_documents with the commented-out `raise` put
\* back: the exception exc leaves the function
RetrieveExcept_Reraises(exc) == [outcome |-> "raised", value |-> <<>>]

\* lines 512-515: `except Exception` logs the exception exc and returns []
RetrieveExcept(exc) == [outcome |-> "returned", value |-> <<>>]

\* bm25_index.get_scores(tokenized_query) for the query of the call; <<>> when
\* there is no index, no corpus, or the query has no token
Bm25Answers ==
    IF bm25_index /\ all_documents # <<>> THEN SparseScores \cup {<<>>} ELSE {<<>>}

\* a direct call rerank_documents(query, docs_for_reranking)
RerankDocuments ==
    /\ call.op = "none"
    /\ \E docs \in Rankings(1..Len(all_documents), Len(all_documents)) :
       \E answer \in (IF docs = <<>> THEN {NoRerank} ELSE RerankAnswers(Len(docs))) :
        /\ call' = [NoCall EXCEPT !.op = "rerank_documents", !.outcome = "returned",
                                  !.docs_for_reranking = docs,
                                  !.reranker = answer.reranker, !.rerank_scores = answer.rerank_scores]
        /\ rrf_result' = <<>>
        /\ returned' = rerank_documents(docs, answer)
        /\ all_documents' = ScoredDocuments(docs, answer)
    /\ UNCHANGED <<vectorstore, bm25_index, over_retrieve_k, final_k>>
    /\ UNCHANGED <<service, rag_bot_instance, llm_ready, max_history_length>>
    /\ UNCHANGED <<histVars, sessVars, threadVars, request_no, loop_owner, proxyVars>>

\* retrieve_documents(query): the whole call
RetrieveDocuments ==
    /\ call.op = "none"
    /\ IF ~vectorstore
       THEN /\ \E scores \in Bm25Answers :
                call' = [NoCall EXCEPT !.op = "retrieve_documents", !.outcome = "returned",
                                       !.dense = "unloaded", !.bm25_scores = scores]
            /\ rrf_result' = <<>>
            /\ returned' = <<>>
            /\ UNCHANGED all_documents
       ELSE \/ \* similarity_search_with_score raises: except Exception -> []
               /\ \E scores \in Bm25Answers :
                    call' = [NoCall EXCEPT !.op = "retrieve_documents",
                                           !.outcome = RetrieveExcept("dense").outcome,
                                           !.dense = "raises", !.bm25_scores = scores]
               /\ rrf_result' = <<>>
               /\ returned' = RetrieveExcept("dense").value
               /\ UNCHANGED all_documents
            \/ \E dense_results \in DenseResults(over_retrieve_k) :
               \E sparse_scores \in Bm25Answers :
                 LET rrf == rrf_scores(dense_results, sparse_scores)
                     docs == top_indices_for_reranking(rrf)
                     fused == [NoCall EXCEPT !.op = "retrieve_documents", !.dense = "returns",
                                             !.dense_results = dense_results,
                                             !.bm25_scores = sparse_scores,
                                             !.sparse_scores = sparse_scores]
                 IN IF Len(sparse_scores) # Len(all_documents) /\ TruthValueRaises(sparse_scores)
                    THEN \* `elif sparse_scores:` raises: except Exception -> []
                         /\ call' = [fused EXCEPT !.sparse = "raises",
                                                   !.outcome = RetrieveExcept("truth value").outcome]
                         /\ rrf_result' = rrf
                         /\ returned' = RetrieveExcept("truth value").value
                         /\ UNCHANGED all_documents
                    ELSE \E answer \in (IF docs = <<>> THEN {NoRerank} ELSE RerankAnswers(Len(docs))) :
                         /\ call' = [fused EXCEPT
                                        !.outcome = "returned",
                                        !.sparse = IF sparse_scores = <<>> THEN "skipped" ELSE "scores",
                                        !.docs_for_reranking = docs,
                                        !.reranker = answer.reranker,
                                        !.rerank_scores = answer.rerank_scores]
                         /\ rrf_result' = rrf
                         /\ returned' = rerank_documents(docs, answer)
                         /\ all_documents' = ScoredDocuments(docs, answer)
    /\ UNCHANGED <<vectorstore, bm25_index, over_retrieve_k, final_k>>
    /\ UNCHANGED <<service, rag_bot_instance, llm_ready, max_history_length>>
    /\ UNCHANGED <<histVars, sessVars, threadVars, request_no, loop_owner, proxyVars>>

\* the indices and parameters of a RAGBot whose retrieval is not looked at
NoIndex ==
    /\ vectorstore = FALSE
    /\ bm25_index = FALSE
    /\ all_documents = <<>>
    /\ over_retrieve_k = 1
    /\ final_k = 1
    /\ call = NoCall
    /\ rrf_result = <<>>
    /\ returned = <<>>

\* RAGBot.__init__: what _load_vector_store and _load_bm25_and_docs found.
\* over_retrieve_k and k are 20 and 5 in the source; the corpus here is a few
\* documents, so they take values below its size.
IndexInit ==
    /\ vectorstore \in BOOLEAN
    /\ bm25_index \in BOOLEAN
    /\ all_documents \in Corpora
    /\ over_retrieve_k \in OverRetrieveKs
    /\ final_k \in FinalKs
    /\ call = NoCall
    /\ rrf_result = <<>>
    /\ returned = <<>>

\* ------------------------------------------------------- specification
RagSession(s) ==
    \/ GStart(s) \/ GNext(s) \/ GWake(s) \/ GJoin(s)
    \/ GExcept(s) \/ GFinally(s) \/ GCommit(s)

LlmSession(s) ==
    \/ GenerateStream(s) \/ SGStart(s) \/ SGNext(s) \/ SGWake(s)
    \/ SGExcept(s) \/ SGFinally(s)

Worker(s) == WorkerPut(s) \/ WorkerEnd(s) \/ WorkerFail(s)

Consumer(s) == GClose(s) \/ GCloseJoin(s)

Routes(s) ==
    \/ GenerateRagResponseStream(s) \/ RagBotStreamGenerator(s)
    \/ InferStream(s) \/ WrapperCatch(s) \/ NextRequest(s)

Proxy ==
    \/ PInit \/ PConnectFails \/ PResponse \/ PChunkScripted \/ PChunkLive
    \/ PStreamEnds \/ PStreamRaises \/ PHandler \/ PFinally

Next ==
    \/ \E s \in Serial : Routes(s) \/ RagSession(s) \/ LlmSession(s) \/ Worker(s) \/ Consumer(s)
    \/ ProcessChatMessageView_get
    \/ Proxy

Init == ServiceInit /\ NoIndex

Spec == Init /\ [][Next]_vars

\* One retrieval call on a RAGBot of the inference service.
InitRetrieve ==
    /\ ServiceInit
    /\ service = "gpu_inference"
    /\ rag_bot_instance
    /\ llm_ready
    /\ max_history_length = 0
    /\ IndexInit

NextRetrieve == RetrieveDocuments \/ RerankDocuments

SpecRetrieve == InitRetrieve /\ [][NextRetrieve]_vars

\* Two requests in flight at once on one service process: both response
\* generators are tasks of the same event loop, each with its own worker.
InitLoop ==
    /\ Init
    /\ service \in {"rag_server", "llm_service"}
    /\ llm_ready
    /\ service = "rag_server" => rag_bot_instance

NextLoop ==
    \E s \in Sessions :
        \/ GenerateRagResponseStream(s) \/ RagSession(s)
        \/ LlmSession(s) \/ Worker(s)

SpecLoop == InitLoop /\ [][NextLoop]_vars

TypeOK ==
    /\ service \in Services
    /\ p_pc \in {"off", "request", "rejected", "http_error",
                 "start", "connect", "stream", "handler", "finally", "done"}
    /\ \A s \in Sessions :
        g_pc[s] \in {"idle", "check", "loop", "sleep", "join", "except", "finally", "commit", "done", "raised",
                     "closing", "closed"}

\* =============================================================== claims
\* the SSE events of a sequence of chunks: keep-alive comment lines and the
\* plain text written by wrapper generators are not events
IsEvent(c) == c.ev \notin {"ping", "text"}
Events(seq) == SelectSeq(seq, IsEvent)
Kinds(seq) == [i \in 1..Len(seq) |-> seq[i].ev]
ExactlyOneEndLast(seq) ==
    /\ SeqCount(seq, "end") = 1
    /\ seq[Len(seq)].ev = "end"
\* after an error event only error and end events follow
NothingAfterError(seq) ==
    \A i, j \in 1..Len(seq) : (i < j /\ seq[i].ev = "error") => seq[j].ev \in {"error", "end"}
ProxyFailed == p_exc # "none" \/ up_status \notin {0, StatusOK}
Finished(s) == g_pc[s] \in {"done", "raised"}

\* C1 (as claimed; violated): every exhausted run of the proxy generator has
\* delivered exactly one `end` event to the client, and it is the last one.
C1_ProxyExactlyOneEndLast ==
    p_pc = "done" => ExactlyOneEndLast(Events(client))

\* C2 (as claimed; violated): each proxy failure kind (connection failure,
\* stream failure, status other than 200, other exception) has produced
\* exactly one `error` event carrying the interaction id, and an `end` event
\* follows it.
C2_FailureErrorThenEnd ==
    (p_pc = "done" /\ ProxyFailed) =>
        LET withId == {i \in 1..Len(client) : client[i].ev = "error" /\ client[i].id = interaction.id}
        IN /\ Cardinality(withId) = 1
           /\ \A i \in withId : \E j \in (i + 1)..Len(client) : client[j].ev = "end"

\* C3 (as claimed; violated): every finished invocation of
\* generate_response_stream returned normally and yielded `end` exactly once,
\* as its last event.
C3_GeneratorAlwaysEnds ==
    \A s \in Sessions :
        (IsRag(s) /\ Finished(s)) =>
            (g_pc[s] = "done" /\ ExactlyOneEndLast(Events(g_out[s])))

\* C4 (as claimed; violated): when the model, tokenizer, pipeline or RAGBot
\* instance is not initialized, the served stream is exactly one `error`
\* followed by one `end`, and no generation worker was started.
NotInitialized(s) ==
    \/ (g_caller[s] = "rag_generate_stream" /\ ~rag_bot_instance)
    \/ (IsRag(s) /\ ~llm_ready)
    \/ (IsLlm(s) /\ ~llm_ready)
C4_NotInitializedErrorEnd ==
    \A s \in Sessions :
        (NotInitialized(s) /\ Finished(s)) =>
            (Kinds(g_out[s]) = <<"error", "end">> /\ thread[s] = "none")

\* C5 (as claimed; violated): in the event sequence of every coordinator
\* session and in the client-visible sequence of the proxy for any upstream,
\* nothing but `error` and `end` follows an `error` event.
C5_NothingAfterErrorAnyUpstream ==
    /\ \A s \in Sessions : NothingAfterError(Events(g_out[s]))
    /\ NothingAfterError(Events(client))

\* C5 (amended): nothing but `error` and `end` follows an `error` event in the
\* event sequence of every coordinator session, and in the client-visible
\* sequence of the proxy when its upstream is the rag_server endpoint.
C5_NothingAfterError ==
    /\ \A s \in Sessions : NothingAfterError(Events(g_out[s]))
    /\ Live => NothingAfterError(Events(client))

\* C5 witness: the proxy, fed by rag_server, has delivered tokens, then the
\* coordinator's error, then end.
C5_Witness ==
    /\ Live
    /\ p_pc = "done"
    /\ \E i, j, k \in 1..Len(client) :
        /\ i < j /\ j < k
        /\ client[i].ev = "token" /\ client[j].ev = "error" /\ client[k].ev = "end"
    /\ \E i, j \in 1..Len(g_out[Upstream]) :
        i < j /\ g_out[Upstream][i].ev = "error" /\ g_out[Upstream][j].ev = "end"

\* C6: the token events of a coordinator session carry the non-empty pieces
\* taken from the streamer, in the order the worker produced them, each once
\* (all of them once the iterator is exhausted); the proxy delivers the
\* tokens of its upstream session to the client in that same order.
C6_TokenOrder ==
    /\ \A s \in Sessions :
        IsRag(s) =>
            /\ TextsOf(g_out[s], "token") \o NonEmptyPieces(streamer[s]) = NonEmptyPieces(produced[s])
            /\ g_pc[s] \in {"join", "commit", "done"} /\ SeqCount(g_out[s], "error") = 0
                  => TextsOf(g_out[s], "token") = NonEmptyPieces(produced[s])
    /\ Live =>
        /\ IsPrefix(TextsOf(client, "token"), TextsOf(g_out[Upstream], "token"))
        /\ (p_pc = "done" /\ p_exc = "none") => TextsOf(client, "token") = TextsOf(g_out[Upstream], "token")

\* C6 witness: the worker produced a then b and the client of the proxy
\* received token a then token b.
C6_Witness ==
    /\ Live
    /\ p_pc = "done"
    /\ NonEmptyPieces(produced[Upstream]) = <<TokenText[1], TokenText[2]>>
    /\ TextsOf(client, "token") = <<TokenText[1], TokenText[2]>>

\* C7: in a session of generate_response_stream a `sources` event is emitted
\* at most once, after every `token` event and before the `end` event.
C7_SourcesAfterTokens ==
    \A s \in Sessions :
        IsRag(s) =>
            LET ev == Events(g_out[s]) IN
            /\ SeqCount(ev, "sources") <= 1
            /\ \A i \in Positions(ev, "sources") :
                /\ \A j \in Positions(ev, "token") : j < i
                /\ \A j \in Positions(ev, "end") : i < j

\* C7 witness: a finished session that emitted two tokens, sources, end.
C7_Witness ==
    \E s \in Sessions :
        /\ IsRag(s)
        /\ g_pc[s] = "done"
        /\ Kinds(g_out[s]) = <<"token", "token", "sources", "end">>

\* C8 (as claimed; violated): every session whose generation completed
\* without error emitted exactly one `sources` event.
C8_SourcesExactlyOnce ==
    \A s \in Sessions :
        (IsRag(s) /\ g_pc[s] = "done" /\ thread[s] = "finished" /\ SeqCount(g_out[s], "error") = 0)
            => SeqCount(g_out[s], "sources") = 1

\* C9 (as claimed; violated): for a request served by /rag_generate_stream,
\* retrieve_documents was invoked before generation started and the documents
\* passed to generate_response_stream are the ones it returned.
C9_EndpointRetrievesFirst ==
    \A s \in Sessions :
        (g_caller[s] = "rag_generate_stream" /\ IsRag(s) /\ g_pc[s] # "idle") =>
            /\ Len(retrieve_calls[s]) >= 1
            /\ g_docs[s] = retrieve_calls[s][Len(retrieve_calls[s])]

\* C10 (as claimed; violated): conversation_history holds at most
\* max_history_length turns and equals the most recently appended turns, in
\* append order.
C10_HistoryBound ==
    LET n == Len(appended_turns)
        k == IF max_history_length < n THEN max_history_length ELSE n
    IN /\ Len(conversation_history) <= max_history_length
       /\ conversation_history = SubSeq(appended_turns, n - k + 1, n)

\* C11 (as claimed; violated): a turn is appended to the history only by a
\* session whose generation completed: the commit step of a session that wrote
\* an error event, or that accumulated no answer, leaves the history as it was.
C11_CommitOnlyAfterCompletion ==
    [][\A s \in Sessions :
        (/\ IsRag(s)
         /\ g_pc[s] = "commit"
         /\ g_pc'[s] = "done"
         /\ (SeqCount(g_out[s], "error") > 0 \/ g_full[s] = <<>>))
            => UNCHANGED histVars]_vars

\* C12 (as claimed; violated): the history is per chat session: every turn
\* read into the prompt of a request was committed by a request of the same
\* chat session.
C12_HistoryPerSession ==
    \A s \in Sessions :
        \A i \in 1..Len(g_prompt_from[s]) : g_prompt_from[s][i] = g_session[s]

\* a session's task is blocked in streamer.__next__: the queue is empty
WaitingForToken(s) == g_pc[s] = "loop" /\ streamer[s] = <<>>
\* a task of the event loop other than the token wait: a request to accept,
\* a generator to start, a sleep timer that expired, the code after `end`
ReadyTask(s) == g_pc[s] \in {"idle", "check", "sleep", "commit"}
TaskStep(s) == GenerateRagResponseStream(s) \/ RagSession(s) \/ LlmSession(s)

\* C13 (as claimed; violated): while one session waits for its worker's next
\* token, a ready task of another session on the same event loop can run.
C13_WaitDoesNotBlockOthers ==
    \A s, t \in Sessions :
        (s # t /\ WaitingForToken(s) /\ ReadyTask(t)) => ENABLED TaskStep(t)

\* C14 (as claimed; violated): every generation session eventually emits
\* `end` and terminates, also when its worker stops without signalling the
\* end of the stream.  Stated on finite runs: a session that has started and
\* not finished always has a step to take, of its own or of its worker (a
\* state without one can never be left, so `end` is never emitted).
C14_SessionCanAlwaysProceed ==
    \A s \in Sessions :
        (IsRag(s) /\ g_pc[s] \notin {"idle", "done", "raised", "closed"})
            => ENABLED (RagSession(s) \/ Worker(s) \/ Consumer(s))

\* ---- hybrid retrieval, as the claims describe it
Retrieved == call.op = "retrieve_documents" /\ call.dense = "returns"
Corpus_ == 1..Len(all_documents)
InDense(d) == \E r \in 1..Len(call.dense_results) : call.dense_results[r] = d
\* 0-based rank of document d in the dense result list
DenseRankOf(d) == (CHOOSE r \in 1..Len(call.dense_results) : call.dense_results[r] = d) - 1
\* the sparse list exists when there is one score per corpus document
HasSparseList == call.sparse_scores # <<>> /\ Len(call.sparse_scores) = Len(all_documents)
\* 0-based rank of document d in the corpus sorted by sparse score descending
SparseRankOf(d) ==
    Cardinality({j \in Corpus_ :
        \/ call.sparse_scores[j] > call.sparse_scores[d]
        \/ call.sparse_scores[j] = call.sparse_scores[d] /\ j < d})
InSparse(d) ==
    /\ HasSparseList
    /\ call.sparse_scores[d] > 0
    /\ SparseRankOf(d) < 2 * over_retrieve_k
ClaimedScore(d) ==
    FracAdd(IF InDense(d) THEN Frac(1, 60 + DenseRankOf(d)) ELSE FracZero,
            IF InSparse(d) THEN Frac(1, 60 + SparseRankOf(d)) ELSE FracZero)
FusedScore(d) == DictGet(rrf_result, d, FracZero)

\* C15 (as claimed; violated): after retrieve_documents has fused a dense
\* ranking and a sparse score array, the fused score of every corpus document
\* is the sum of 1/(60+r) over the lists in which it appears at rank r.
C15_FusedScore ==
    Retrieved => \A d \in Corpus_ : FracEq(FusedScore(d), ClaimedScore(d))

\* the order the claim gives to two documents of equal fused score
PriorOrder(a, b) ==
    IF InDense(a) /\ InDense(b) THEN DenseRankOf(a) < DenseRankOf(b)
    ELSE IF InDense(a) THEN TRUE
    ELSE IF InDense(b) THEN FALSE
    ELSE SparseRankOf(a) < SparseRankOf(b)
TiesKeepPriorOrder ==
    LET cand == call.docs_for_reranking IN
    \A i, j \in 1..Len(cand) :
        (i < j /\ FracEq(FusedScore(cand[i]), FusedScore(cand[j]))) => PriorOrder(cand[i], cand[j])

\* C16 (as claimed; violated): candidates of equal fused score are in dense
\* rank order first, then the sparse-only ones in sparse rank order.
C16_StableTies == Retrieved => TiesKeepPriorOrder

\* the lexical index holds a positive score for the query of the call
SparseHit(d) ==
    /\ Len(call.bm25_scores) = Len(all_documents)
    /\ call.bm25_scores[d] > 0

\* C17 (as claimed; violated): when the vector store is not loaded or the
\* dense search fails, and the lexical index gives some document a positive
\* score, retrieve_documents returns a non-empty list of documents with a
\* positive sparse score.
C17_DenseUnavailableDegrades ==
    (/\ call.op = "retrieve_documents"
     /\ call.dense \in {"unloaded", "raises"}
     /\ \E d \in Corpus_ : SparseHit(d))
        => /\ returned # <<>>
           /\ \A i \in 1..Len(returned) : SparseHit(returned[i])

\* the documents with a sparse contribution, in sparse rank order
RECURSIVE SparseOrder(_)
SparseOrder(S) ==
    IF S = {} THEN <<>>
    ELSE LET first == CHOOSE d \in S : \A e \in S : SparseRankOf(d) <= SparseRankOf(e)
         IN <<first>> \o SparseOrder(S \ {first})
DenseEmpty == Retrieved /\ call.dense_results = <<>>

\* C18: when the dense search returns an empty list, the fused score of every
\* document is its sparse contribution alone and the candidates are the first
\* over_retrieve_k documents of the sparse order; when moreover no document
\* has a positive sparse score, retrieve_documents returns the empty list.
C18_EmptyDenseIsSparseOnly ==
    DenseEmpty =>
        /\ \A d \in Corpus_ :
            FracEq(FusedScore(d),
                   IF InSparse(d) THEN Frac(1, 60 + SparseRankOf(d)) ELSE FracZero)
        /\ \A i \in 1..Len(rrf_result) : InSparse(rrf_result[i][1])
        /\ LET order == SparseOrder({d \in Corpus_ : InSparse(d)})
               n == IF over_retrieve_k < Len(order) THEN over_retrieve_k ELSE Len(order)
           IN call.docs_for_reranking = SubSeq(order, 1, n)
        /\ (\A d \in Corpus_ : ~InSparse(d)) => returned = <<>>

\* C18 witness: an empty dense list and two candidates that are not in corpus
\* order, while a third document with a sparse contribution is left out.
C18_Witness ==
    /\ DenseEmpty
    /\ Len(call.docs_for_reranking) = 2
    /\ call.docs_for_reranking[1] > call.docs_for_reranking[2]
    /\ \E d \in Corpus_ :
        /\ InSparse(d)
        /\ \A i \in 1..Len(call.docs_for_reranking) : call.docs_for_reranking[i] # d

\* ---- rerank_documents, as the claims describe it
Reranked == call.op # "none" /\ call.docs_for_reranking # <<>>
MinOf(a, b) == IF a < b THEN a ELSE b
PositionIn(seq, x) == CHOOSE i \in 1..Len(seq) : seq[i] = x

\* C19: when the reranker model cannot be loaded or predict raises,
\* rerank_documents returns the first k candidates in input order, with no
\* score written on them; the result is not empty unless the input is.
C19_RerankerFallback ==
    (Reranked /\ call.reranker \in {"no_model", "predict_raises"}) =>
        /\ Len(returned) = MinOf(final_k, Len(call.docs_for_reranking))
        /\ \A i \in 1..Len(returned) : returned[i] = call.docs_for_reranking[i]
        /\ \A i \in 1..Len(returned) : all_documents[returned[i]].rerank_score = NoScore
        /\ returned # <<>>

\* C19 witness: predict raised on three candidates that are not in corpus
\* order, and the first k of them came back.
C19_Witness ==
    /\ Reranked
    /\ call.reranker = "predict_raises"
    /\ Len(call.docs_for_reranking) = 3
    /\ call.docs_for_reranking[1] > call.docs_for_reranking[2]
    /\ Len(returned) = final_k
    /\ returned = SubSeq(call.docs_for_reranking, 1, final_k)

RerankScoreOf(d) == call.rerank_scores[PositionIn(call.docs_for_reranking, d)]

\* C20: when the reranker scores the candidates, rerank_documents returns
\* min(k, number of candidates) documents, each one of the candidates and none
\* twice, in descending order of rerank score; candidates of equal score keep
\* their order in the input.
C20_RerankOrder ==
    (Reranked /\ call.reranker = "scores") =>
        LET docs == call.docs_for_reranking IN
        /\ Len(returned) = MinOf(final_k, Len(docs))
        /\ \A i \in 1..Len(returned) : \E j \in 1..Len(docs) : docs[j] = returned[i]
        /\ \A i, j \in 1..Len(returned) : returned[i] = returned[j] => i = j
        /\ \A i, j \in 1..Len(returned) :
            i < j => /\ RerankScoreOf(returned[i]) >= RerankScoreOf(returned[j])
                     /\ RerankScoreOf(returned[i]) = RerankScoreOf(returned[j])
                            => PositionIn(docs, returned[i]) < PositionIn(docs, returned[j])
        /\ \A i \in 1..Len(returned) : all_documents[returned[i]].rerank_score = <<RerankScoreOf(returned[i])>>

\* C20 witness: three scored candidates, two of them tied, and a result of
\* two documents that is not a prefix of the input.
C20_Witness ==
    /\ Reranked
    /\ call.reranker = "scores"
    /\ Len(call.docs_for_reranking) = 3
    /\ Len(returned) = 2
    /\ returned # SubSeq(call.docs_for_reranking, 1, 2)
    /\ RerankScoreOf(returned[1]) = RerankScoreOf(returned[2])

\* C21: retrieve_documents never raises: whether the vector store is missing
\* or its search fails, the lexical index is missing, the score array has the
\* wrong length or the reranker fails, the call returns a list of at most k
\* documents, each of them a document of the corpus.
C21_RetrieveNeverRaises ==
    call.op = "retrieve_documents" =>
        /\ call.outcome = "returned"
        /\ Len(returned) <= final_k
        /\ \A i \in 1..Len(returned) : returned[i] \in Corpus_

\* C21 witness: the dense search found documents, the score array of the
\* lexical index had the wrong length and its truth value raised; the call
\* returned the empty list.
C21_Witness ==
    /\ call.op = "retrieve_documents"
    /\ call.dense_results # <<>>
    /\ call.sparse = "raises"
    /\ call.outcome = "returned"
    /\ returned = <<>>

\* the routes the claim names that are served as a stream
ServingPaths == {"infer_stream", "rag_generate_stream"}
\* a request accepted by a service with a RAGBot, for which retrieval gave no
\* document
NoDocuments(s) ==
    /\ g_caller[s] \in ServingPaths
    /\ rag_bot_instance
    /\ g_pc[s] # "idle"
    /\ g_docs[s] = <<>>

\* C22 (as claimed; violated): a request for which retrieval gave no document
\* starts no generation worker and writes no `token` event.
C22_NoDocumentsNoGeneration ==
    \A s \in Sessions :
        NoDocuments(s) => (thread[s] = "none" /\ SeqCount(g_out[s], "token") = 0)

\* C23: when a chunk arrives more than 15 seconds after the last activity the
\* proxy writes a keep-alive comment line and then the chunk; when it arrives
\* 15 seconds or less after it, the proxy writes the chunk alone.
C23_KeepAliveTiming ==
    [][up_count' = up_count + 1 =>
        LET chunk == client'[Len(client')] IN
        /\ chunk # PingLine
        /\ IF elapsed' > 15
           THEN client' = client \o <<PingLine, chunk>>
           ELSE client' = Append(client, chunk)]_vars

\* C23 witness: a chunk arrived 16 seconds after a token was forwarded, and a
\* keep-alive line stands between the two.
C23_Witness ==
    /\ elapsed = 16
    /\ Len(client) >= 3
    /\ client[Len(client) - 2].ev = "token"
    /\ client[Len(client) - 1] = PingLine
    /\ client[Len(client)].ev \in {"token", "sources", "end"}

C25_OwnEndUnconditional ==
    p_pc = "done" => own_ends = 1

\* the failures the claim lists, read off the request
ValidationFailure(req) ==
    \/ req.query_text = ""
    \/ req.auth_header # "Bearer"
    \/ req.token \in {"invalid", "expired", "no_user_id"}
    \/ ~req.user_exists
Handled == p_pc \notin {"off", "request"}

\* C26: a request with a missing query, without a Bearer header, with an
\* invalid or expired token or of an unknown user is answered by a stream of
\* exactly one `error` and one `end`; no ChatSession and no Interaction is
\* created and the RAG service is not contacted.
C26_ValidationFailure ==
    (Handled /\ ValidationFailure(request)) =>
        /\ Kinds(client) = <<"error", "end">>
        /\ chat_sessions_created = 0
        /\ db.writes = 0
        /\ interaction = NoInteraction
        /\ up_status = 0 /\ up_count = 0 /\ p_exc = "none"
        /\ Live => g_pc[Upstream] = "idle"

\* C26 witness: a request with a query and a valid token of a user that does
\* not exist has been answered with error, end.
C26_Witness ==
    /\ Handled
    /\ request.query_text # ""
    /\ request.auth_header = "Bearer"
    /\ request.token = "valid"
    /\ ~request.user_exists
    /\ Kinds(client) = <<"error", "end">>

\* the error texts of the proxy generator's own error events
ProxyErrorKinds ==
    {"RAG service returned error", "RAG Service Connection Error",
     "RAG Service Stream Error", "Internal Server Error"}
OwnErrors == {i \in 1..Len(client) : client[i].ev = "error" /\ client[i].text \in ProxyErrorKinds}

\* C27: the proxy generator's first event is `init` with the id of the
\* Interaction created for the request; it is written once, before the
\* connection to the RAG service is attempted, and each `error` event the proxy
\* writes itself carries that id.
C27_InitFirstWithId ==
    /\ p_pc = "start" => (client = <<>> /\ up_status = 0 /\ p_exc = "none")
    /\ p_pc \in {"connect", "stream", "handler", "finally", "done"} =>
        /\ client # <<>>
        /\ client[1] = InitEvent(InteractionId)
        /\ db.writes >= 1
        /\ SeqCount(client, "init") = 1
        /\ \A i \in OwnErrors : client[i].id = client[1].id
        /\ (ProxyFailed /\ p_pc \in {"finally", "done"}) => OwnErrors # {}
    /\ p_pc = "connect" => (client = <<InitEvent(InteractionId)>> /\ up_status = 0 /\ p_exc = "none")

\* C27 witness: a session that wrote init, forwarded a token, and reported a
\* stream error of its own with the same id.
C27_Witness ==
    /\ p_pc = "done"
    /\ p_exc = "StreamError"
    /\ client[1].ev = "init"
    /\ \E i \in 2..Len(client) : client[i].ev = "token"
    /\ \E i \in OwnErrors : client[i].id = InteractionId

\* a token or sources chunk whose data line is missing or is not valid JSON
Malformed(c) == c.ev \in {"token", "sources"} /\ c.data \in {"invalid", "missing"}
HasMalformed(seq) == \E i \in 1..Len(seq) : Malformed(seq[i])
\* the text of the well-formed token and sources chunks of seq, in order
RECURSIVE WellFormedText(_)
WellFormedText(seq) ==
    IF seq = <<>> THEN <<>>
    ELSE LET c == Head(seq)
             own == IF c.ev = "token" /\ c.data = "ok" THEN <<c.text>>
                    ELSE IF c.ev = "sources" /\ c.data = "ok" /\ c.srcs # <<>>
                    THEN SourcesMarkdown(c.srcs)
                    ELSE <<>>
         IN own \o WellFormedText(Tail(seq))
Healthy(seq) == SeqCount(seq, "error") = 0

\* C28: a chunk that cannot be parsed is forwarded like any other and is not
\* fatal: the step that receives it writes no `error` event, leaves the error
\* flag and the accumulated text as they were and stays in the read loop; the
\* accumulated text is always that of the well-formed chunks, and a session
\* with such a chunk and no failure ends with that text saved.
C28_ParseFailureNotFatal ==
    [][/\ (up_count' = up_count + 1 /\ Malformed(client'[Len(client')])) =>
            /\ error_occurred' = error_occurred
            /\ full_response_text' = full_response_text
            /\ SeqCount(client', "error") = SeqCount(client, "error")
            /\ p_pc' = "stream"
       /\ full_response_text' = WellFormedText(client')
       /\ (p_pc' = "done" /\ HasMalformed(client') /\ Healthy(client') /\ ~ProxyFailed') =>
            /\ ~error_occurred'
            /\ save_calls' = 1
            /\ interaction'.final_response_text = WellFormedText(client')]_vars

\* C28 witness: a chunk that could not be parsed was followed by a token; the
\* session ended and the token's text is stored.
C28_Witness ==
    /\ p_pc = "done"
    /\ \E i, j \in 1..Len(client) :
        i < j /\ Malformed(client[i]) /\ client[i].data = "invalid" /\ client[j].ev = "token" /\ client[j].data = "ok"
    /\ ~error_occurred
    /\ db.final_response_text = WellFormedText(client)
    /\ db.final_response_text # <<>>

\* what the client received, keep-alive lines left out
Delivered == SelectSeq(client, LAMBDA c : c.ev # "ping")

\* C29: the client receives init, then the upstream chunks unchanged and in
\* arrival order, then only the proxy's own error and end events; an upstream
\* `end` chunk is the last chunk read and forwarded.
C29_ForwardUnchangedUntilEnd ==
    p_pc \in {"connect", "stream", "handler", "finally", "done"} =>
        LET n == Len(received)
            own == SubSeq(Delivered, n + 2, Len(Delivered))
        IN /\ Len(Delivered) >= n + 1
           /\ Delivered[1].ev = "init"
           /\ SubSeq(Delivered, 2, n + 1) = received
           /\ \A i \in 1..Len(own) :
                \/ own[i] = EndEvent
                \/ own[i].ev = "error" /\ own[i].text \in ProxyErrorKinds
           /\ SeqCount(own, "end") = own_ends
           /\ Live => received = SubSeq(g_out[Upstream], 1, n)
           /\ \A i \in 1..n : received[i].ev = "end" => i = n
           /\ (n > 0 /\ received[n].ev = "end") =>
                /\ p_pc # "stream"
                /\ ~ENABLED (PChunkScripted \/ PChunkLive)

\* C29 witness: the upstream's first chunk was `end`; it was forwarded and
\* the session is over with that one chunk read.
C29_Witness ==
    /\ Scripted
    /\ p_pc = "done"
    /\ received = <<EndEvent>>
    /\ Delivered = <<InitEvent(InteractionId), EndEvent, EndEvent>>

\* the session failed at the proxy: a failure of its own, or an `error` event
\* in the upstream stream
SessionFailed == ProxyFailed \/ SeqCount(received, "error") > 0

\* C30 (as claimed; violated): the Interaction of a session that failed at the
\* proxy is saved with a non-empty error_message and without a
\* final_response_text.
C30_FailureRecorded ==
    (p_pc = "done" /\ SessionFailed) =>
        /\ interaction.error_message # ""
        /\ interaction.final_response_text = <<>>

\* C31: a save of the Interaction that fails at the end of the stream is
\* swallowed: the step of the finally block in which the save fails leaves the
\* events already sent as they are, adds no `error` event, ends the generator
\* normally and, when the session saw no error, still adds the final `end`.
C31_SaveFailureSwallowed ==
    [][(p_pc = "finally" /\ p_pc' # "finally" /\ db'.writes = db.writes) =>
        /\ p_pc' = "done"
        /\ save_calls' = save_calls + 1
        /\ client' = client \o (IF error_occurred THEN <<>> ELSE <<EndEvent>>)
        /\ error_occurred' = error_occurred]_vars

\* C31 witness: a session without error forwarded a token, its save failed
\* (the row still has its creation write only), and `end` is the last event.
C31_Witness ==
    /\ p_pc = "done"
    /\ ~error_occurred
    /\ full_response_text # <<>>
    /\ save_calls = 1
    /\ db.writes = 1
    /\ client[Len(client)] = EndEvent

\* C32 (as claimed; violated): on every terminal path the Interaction is saved
\* before `end` is delivered: whenever the client holds an `end` event written
\* by the proxy, save() has been called.
C32_SavedBeforeEnd ==
    own_ends > 0 => save_calls >= 1

\* A session that generated its whole answer without an error event
Successful(s) ==
    /\ IsRag(s)
    /\ g_question[s] # ""
    /\ g_full[s] # <<>>
    /\ thread[s] = "finished"
    /\ SeqCount(g_out[s], "error") = 0

TurnOf(s) == [human |-> g_question[s], ai |-> g_full[s]]

Committed(s) == \E i \in 1..Len(appended_turns) : appended_turns[i] = TurnOf(s)

\* C33: in a successful generation session the (question, full answer) turn
\* is in the history by the time the `end` event has been yielded, so that a
\* consumer that stops reading at `end` leaves the turn committed.
C33_CommittedBeforeEnd ==
    \A s \in Sessions :
        (Successful(s) /\ SeqCount(g_out[s], "end") > 0) => Committed(s)

\* the consumer stopped at `end`: the session is closed and its turn is lost
C33_ClosedWithoutTurn ==
    \E s \in Sessions :
        /\ Successful(s)
        /\ SeqCount(g_out[s], "end") = 1
        /\ g_pc[s] = "closed"
        /\ ~Committed(s)

\* C39: when the consumer abandons a generation stream the worker thread is
\* not interrupted: a running worker stops only by finishing (or failing) on
\* its own, what it has produced is only ever extended, and the cleanup of
\* the closed generator completes only after the worker has stopped, leaving
\* the worker's state as it found it.
C39_WorkerNotInterrupted ==
    [][\A s \in Sessions :
          IsRag(s) =>
              /\ (thread[s] = "running" /\ thread'[s] # "running")
                    => /\ thread'[s] \in {"finished", "failed"}
                       /\ g_pc'[s] = g_pc[s]
              /\ (g_pc[s] = "closing" /\ g_pc'[s] = "closing")
                    => IsPrefix(produced[s], produced'[s])
              /\ (g_pc[s] = "closing" /\ g_pc'[s] = "closed")
                    => /\ thread[s] # "running"
                       /\ thread'[s] = thread[s]
                       /\ produced'[s] = produced[s]]_vars

\* the stream was abandoned after its first token while the worker is still
\* generating: the worker can go on, the cleanup cannot complete yet
C39_Witness ==
    \E s \in Sessions :
        /\ IsRag(s)
        /\ g_pc[s] = "closing"
        /\ thread[s] = "running"
        /\ SeqCount(g_out[s], "token") = 1
        /\ ENABLED WorkerPut(s)
        /\ ~ENABLED GCloseJoin(s)

\* the SSE events a chunk completes: one for a chunk that is one event, all
\* of them for a chunk of several, the split event for its second part
EventsOf(chunk) ==
    IF IsHead(chunk) THEN <<>>
    ELSE IF IsTail(chunk) THEN <<chunk.tail_of>>
    ELSE IF "more" \in DOMAIN chunk
    THEN <<Chunk(chunk.ev, chunk.data, chunk.text, chunk.srcs, chunk.id)>> \o chunk.more
    ELSE <<chunk>>

RECURSIVE UpstreamEvents(_)
UpstreamEvents(seq) ==
    IF seq = <<>> THEN <<>> ELSE EventsOf(Head(seq)) \o UpstreamEvents(Tail(seq))

\* C35: whatever the framing of the upstream stream into chunks, the proxy
\* has accumulated the text of every well-formed token (and sources) event
\* that has arrived, an upstream `error` event has set the error flag, and
\* after an upstream `end` event the read loop is over.
C35_FramingIndependent ==
    (service \in {"django_scripted", "django_live"}) =>
        /\ full_response_text = WellFormedText(UpstreamEvents(received))
        /\ SeqCount(UpstreamEvents(received), "error") > 0 => error_occurred
        /\ SeqCount(UpstreamEvents(received), "end") > 0 => p_pc # "stream"

\* the proxy's accumulation applied to a whole sequence of chunks
RECURSIVE AccumulatedAll(_)
AccumulatedAll(seq) ==
    IF seq = <<>> THEN <<>> ELSE Accumulated(Head(seq)) \o AccumulatedAll(Tail(seq))

\* the sources block the coordinator appends for the sources events of seq
RECURSIVE SourcesBlock(_)
SourcesBlock(seq) ==
    IF seq = <<>> THEN <<>>
    ELSE (IF Head(seq).ev = "sources" THEN SourcesMarkdown(Head(seq).srcs) ELSE <<>>)
            \o SourcesBlock(Tail(seq))

\* C34: for a successful session, one event per chunk: what the proxy's
\* accumulation makes of the coordinator's events is the token texts in order
\* followed by the sources block, and is the answer text the coordinator
\* holds for the history; in a proxied session that text is what the proxy
\* hands to the save, what a successful save stores, and the answer of the
\* turn the coordinator commits.
C34_PersistedEqualsCommitted ==
    /\ \A s \in Sessions :
        (IsRag(s) /\ g_pc[s] \in {"commit", "done"} /\ SeqCount(g_out[s], "error") = 0) =>
            /\ AccumulatedAll(g_out[s]) = TextsOf(g_out[s], "token") \o SourcesBlock(g_out[s])
            /\ AccumulatedAll(g_out[s]) = g_full[s]
    /\ (Live /\ p_pc = "done" /\ p_exc = "none" /\ ~error_occurred /\ IsRag(Upstream)) =>
        /\ interaction.final_response_text = AccumulatedAll(received)
        /\ interaction.final_response_text = TextsOf(client, "token") \o SourcesBlock(client)
        /\ interaction.final_response_text = g_full[Upstream]
        /\ db.writes = 2 => db.final_response_text = interaction.final_response_text
        /\ (g_pc[Upstream] = "done" /\ interaction.final_response_text # <<>>) =>
              /\ appended_turns # <<>>
              /\ appended_turns[Len(appended_turns)].ai = interaction.final_response_text

\* a proxied session saved the two tokens its coordinator committed
C34_Witness ==
    /\ Live
    /\ p_pc = "done"
    /\ db.writes = 2
    /\ db.final_response_text = <<TokenText[1], TokenText[2]>>
    /\ g_pc[Upstream] = "done"
    /\ appended_turns = <<[human |-> "q", ai |-> <<TokenText[1], TokenText[2]>>]>>

\* a coordinator with documents finished: tokens and the sources block
C34_WitnessSources ==
    \E s \in Sessions :
        /\ IsRag(s)
        /\ g_pc[s] = "done"
        /\ g_full[s] = <<TokenText[1], SourcesHeader, "- x", "- y">>
        /\ AccumulatedAll(g_out[s]) = g_full[s]

\* C36: a call of retrieve_documents or rerank_documents leaves the shared
\* corpus as it was (every document of all_documents with the same content
\* and metadata) and leaves conversation_history unchanged.
C36_RetrievalReadOnly ==
    [][(call.op = "none" /\ call'.op # "none") =>
            /\ all_documents' = all_documents
            /\ conversation_history' = conversation_history]_vars

\* the part of C36 about the history alone
C36_HistoryUntouched ==
    [][(call.op = "none" /\ call'.op # "none") => conversation_history' = conversation_history]_vars

\* the text of a dense result: that of the corpus document, or a text that is
\* in no corpus document
DenseText(r) ==
    IF call.dense_results[r] = Foreign THEN ForeignContent
    ELSE all_documents[call.dense_results[r]].page_content
\* some dense result has the text of corpus document d
DenseTextMatches(d) ==
    \E r \in 1..Len(call.dense_results) : DenseText(r) = all_documents[d].page_content
Candidates == call.docs_for_reranking
IsCandidate(d) == \E i \in 1..Len(Candidates) : Candidates[i] = d

\* C37: after the fusion step of retrieve_documents the candidate list holds
\* corpus indices, each at most once, at most over_retrieve_k of them, each of
\* a document with a dense contribution (a dense result of its text) or a
\* sparse one, in descending order of fused score and with no higher-scored
\* document left out; a dense result whose text is in no corpus document is
\* no candidate and gives no document a score.
C37_CandidateList ==
    Retrieved =>
        /\ \A i \in 1..Len(Candidates) : Candidates[i] \in Corpus_
        /\ \A i, j \in 1..Len(Candidates) : Candidates[i] = Candidates[j] => i = j
        /\ Len(Candidates) <= over_retrieve_k
        /\ \A i \in 1..Len(Candidates) :
            /\ DenseTextMatches(Candidates[i]) \/ InSparse(Candidates[i])
            /\ FracLess(FracZero, FusedScore(Candidates[i]))
        /\ \A i, j \in 1..Len(Candidates) :
            i < j => ~FracLess(FusedScore(Candidates[i]), FusedScore(Candidates[j]))
        /\ call.sparse # "raises" =>
            \A d \in Corpus_ :
                (FracLess(FracZero, FusedScore(d)) /\ ~IsCandidate(d)) =>
                    /\ Len(Candidates) = over_retrieve_k
                    /\ ~FracLess(FusedScore(Candidates[Len(Candidates)]), FusedScore(d))
        /\ \A i \in 1..Len(rrf_result) : rrf_result[i][1] \in Corpus_
        /\ \A d \in Corpus_ :
            (~DenseTextMatches(d) /\ ~InSparse(d)) => FracEq(FusedScore(d), FracZero)

\* the vector store returned a document that is not in the corpus ahead of a
\* corpus document; two candidates, not in corpus order, and a third document
\* with a score is left out
C37_Witness ==
    /\ Retrieved
    /\ Len(call.dense_results) = 2
    /\ call.dense_results[1] = Foreign
    /\ Len(Candidates) = 2
    /\ Candidates[1] > Candidates[2]
    /\ \E d \in Corpus_ : FracLess(FracZero, FusedScore(d)) /\ ~IsCandidate(d)

\* the fusion of the dense ranking of the call alone
DenseAlone == FuseDense(dense_ranks(call.dense_results), doc_content_to_index(all_documents))
UsesDenseAlone ==
    /\ rrf_result = DenseAlone
    /\ Candidates = top_indices_for_reranking(DenseAlone)
\* no sparse score array (no token in the query, no lexical index, no corpus)
NoSparseScores == call.sparse_scores = <<>>
SparseCountDiffers ==
    call.sparse_scores # <<>> /\ Len(call.sparse_scores) # Len(all_documents)
\* the sum of the sparse contributions in the fused scores is nothing
ZeroScoreNoContribution ==
    \A d \in Corpus_ :
        (HasSparseList /\ call.sparse_scores[d] = 0) =>
            FracEq(FusedScore(d), DictGet(DenseAlone, d, FracZero))

\* C38: retrieve_documents fuses the dense ranking alone when there are no
\* sparse scores (the query has no token, the lexical index or the corpus is
\* not loaded) and when the number of sparse scores differs from the number
\* of corpus documents; and a document whose sparse score is 0 has no sparse
\* contribution in its fused score.
C38_SparseSkipped ==
    Retrieved =>
        /\ (NoSparseScores \/ SparseCountDiffers) => UsesDenseAlone
        /\ ZeroScoreNoContribution

\* C38 without the case of a differing number of scores
C38_SkippedWithoutScores ==
    Retrieved =>
        /\ NoSparseScores => UsesDenseAlone
        /\ (SparseCountDiffers /\ ~TruthValueRaises(call.sparse_scores)) => UsesDenseAlone
        /\ ZeroScoreNoContribution

\* the view has created the Interaction of the request
InteractionCreated ==
    /\ service \in {"django_scripted", "django_live"}
    /\ interaction # NoInteraction

\* C40: the Interaction is created with a ChatSession of the authenticated
\* user: the one named by session_id when that row exists and is the user's,
\* and otherwise (no session_id, "new", no id, no such row, a row of another
\* user) a session created for the user by this request; never a row of
\* another user.
C40_SessionOwnedByUser ==
    InteractionCreated =>
        /\ chat_session.user = AuthenticatedUser
        /\ \A r \in ChatSessionRows : r.user # AuthenticatedUser => chat_session # r
        /\ IF [id |-> request.session_id, user |-> AuthenticatedUser] \in ChatSessionRows
           THEN /\ chat_session.id = request.session_id
                /\ chat_sessions_created = 0
           ELSE /\ chat_session = NewSession(AuthenticatedUser)
                /\ chat_session \notin ChatSessionRows
                /\ chat_sessions_created = 1

\* a request that names the session of another user got a session of its own
C40_Witness ==
    /\ InteractionCreated
    /\ request.session_id = "other"
    /\ chat_session = NewSession(AuthenticatedUser)
    /\ chat_sessions_created = 1

====
